---- MODULE Spec2Model ----
(***************************************************************************)
(* Model of the annotation / overlay utilities of the video review         *)
(* dashboard: the export pipelines (utils/track_utils.py,                  *)
(* utils/yolo_utils.py), the annotation parsers and the frame-indexed      *)
(* query layer.                                                            *)
(*                                                                         *)
(* The specifications share the variables:                                 *)
(*   Spec       one call of create_video_with_tracks or                    *)
(*              create_video_with_detections, step by step;                *)
(*   SpecParse  calls of load_detections / load_mot_tracks /               *)
(*              load_shoe_labels on a small file system;                   *)
(*   SpecQuery  calls of get_frame_detections on a parsed detection set;   *)
(*   SpecLines  load_mot_tracks on generated track files;                  *)
(*   SpecShoes  load_shoe_labels on generated documents, and the views     *)
(*              get_tracker_shoes_static / summarize_*_shoes of the result;*)
(*   SpecAvg    compute_avg_detections on a parsed detection set;          *)
(*   SpecViews  get_frame_tracks on a track set held by reference, and a   *)
(*              caller writing into what it returned;                      *)
(*   SpecRender the drawing functions and apply_mask_to_frame on rasters   *)
(*              held by reference;                                         *)
(*   SpecColor  calls of id_color from the export and from the page;       *)
(*   SpecInfo   get_video_info and get_video_info_safe on every outcome of *)
(*              cv2 and ffprobe;                                           *)
(*   SpecLabel  the shoe-label patch of draw_tracks_on_image;              *)
(*   SpecUI     the dashboard page (app.py): callbacks, slider, navigation *)
(*              buttons, video selection and the frame view;               *)
(*   SpecRead   calls of read_frame;                                       *)
(*   SpecFair   Spec with the steps of the call taken as long as one is    *)
(*              possible.                                                  *)
(***************************************************************************)
EXTENDS Integers, Sequences, FiniteSets, TLC

VARIABLES
    \* ---- export call: arguments
    fn,              \* "tracks" (create_video_with_tracks) or "detections"
    has_callback,    \* progress_callback is not None
    shoe_given,      \* shoe_data is truthy
    include_roi,     \* include_roi_zones
    tracks_data,     \* tracks_data["tracks"]: the parsed track points
    \* ---- export call: locals and environment
    pc,              \* position in the function body
    cap,             \* decoder: "none" | "unopened" | "opened" | "released"
    out,             \* encoder: "none" | "opened" | "released"
    total_frames,    \* int(cap.get(CAP_PROP_FRAME_COUNT))
    frame_idx,       \* loop counter
    track_history,   \* dict tid -> deque(maxlen=25) of <<cx, cy>>
    written,         \* frame indices handed to out.write, in order
    calls,           \* arguments of every progress_callback invocation, in order
    result,          \* "pending" | "True" | "False" | "escaped"
    \* ---- export call: history variables (not in the code)
    video,           \* what the input turned out to be: "unprobed" | "missing" |
                     \* "unopenable" | "readable"
    decoded,         \* number of frames cap.read() has returned
    appended,        \* tid -> every centroid ever appended for tid, in order
    raised,          \* kinds of exceptions raised so far: "inner", "outer"
    \* ---- parser calls
    fs,              \* path -> the file there, or Absent
    parse_log,       \* the parser calls made: [fn, path, outcome], in order
    \* ---- detection queries
    det_data,        \* the detection set, as load_detections returned it
    query,           \* the last get_frame_detections call: [idx, min, result]
    prev_query,      \* the call before it
    \* ---- objects shared by reference (dicts, lists, rasters)
    heap,            \* address -> the object stored there
    trace,           \* the calls made on heap objects and of pure functions, in order
    \* ---- dashboard page (app.py)
    session,         \* st.session_state: the keys the callbacks and the page read
    loaded,          \* tracker checkbox key -> the track set _load_tracks returns for it
    view             \* what the last script run displayed: [mode, frame, tracker, history]

exportVars == <<fn, has_callback, shoe_given, include_roi, tracks_data, pc, cap, out,
                total_frames, frame_idx, track_history, written, calls, result,
                video, decoded, appended, raised>>

parseVars == <<fs, parse_log>>

queryVars == <<det_data, query, prev_query>>

memVars == <<heap, trace>>

uiVars == <<session, loaded, view>>

vars == <<exportVars, parseVars, queryVars, memVars, uiVars>>

-----------------------------------------------------------------------------
(* Bounds of the model *)

\* Largest number of frames the decoder delivers in one export.
MaxFrames == 27

(* Program constants *)

\* deque(maxlen=25)
HistoryLen == 25

-----------------------------------------------------------------------------
(* Track sets handed to the export: the records load_mot_tracks builds *)

\* Python's None.
None == [k |-> "none"]

TrackPoint(f, id, x1, y1, x2, y2) ==
    [frame |-> f, id |-> id, bbox |-> [x1 |-> x1, y1 |-> y1, x2 |-> x2, y2 |-> y2],
     conf |-> None]

TrackPatterns == {"walk", "pair", "negative", "empty"}

\* The track points one frame contributes, in file order.
PatternPoints(p, f) ==
    CASE p = "walk"     -> << TrackPoint(f, 1, f, 0, f + 3, 10 + f) >>
      [] p = "pair"     -> IF f = 0
                           THEN << TrackPoint(0, 1, 0, 0, 2, 5), TrackPoint(0, 2, 8, 0, 9, 7),
                                   TrackPoint(0, 1, 1, 0, 4, 6) >>
                           ELSE << TrackPoint(f, 1, f, 0, f + 2, 5 + f),
                                   TrackPoint(f, 1, f + 1, 0, f + 4, 6 + f) >>
      [] p = "negative" -> IF f % 2 = 0
                           THEN << TrackPoint(f, 7, 0 - f - 3, 0, 0 - f, f),
                                   TrackPoint(f, 2, f, f, f + 1, f + 1) >>
                           ELSE << TrackPoint(f, 7, 0 - f - 3, 0, 0 - f, f) >>
      [] OTHER          -> << >>

RECURSIVE PatternTracks(_, _)
\* Frames n-1 down to 0: the file need not be sorted by frame.
PatternTracks(p, n) ==
    IF n = 0 THEN << >> ELSE PatternPoints(p, n - 1) \o PatternTracks(p, n - 1)

TrackSets == { PatternTracks(p, MaxFrames) : p \in TrackPatterns }

-----------------------------------------------------------------------------
(* Helpers of the export *)

\* get_frame_tracks: the points whose frame equals frame_idx, in list order,
\* each a fresh {id, bbox, conf} record.
get_frame_tracks(data, f) ==
    LET hit == SelectSeq(data, LAMBDA item : item.frame = f)
    IN  [i \in 1..Len(hit) |-> [id |-> hit[i].id, bbox |-> hit[i].bbox, conf |-> hit[i].conf]]

\* int(a / 2) for an integer a: Python's true division, truncated toward zero.
IntHalf(a) == IF a >= 0 THEN a \div 2 ELSE 0 - ((0 - a) \div 2)

\* (cx, cy): horizontal midpoint and bottom edge of the box.
Centroid(bbox) == << IntHalf(bbox.x1 + bbox.x2), bbox.y2 >>

\* A deque created without maxlen: nothing is ever dropped.
dequeAppendUnbounded(q, p) == Append(q, p)

\* deque(maxlen=HistoryLen).append: a full deque drops its oldest element.
dequeAppend(q, p) ==
    IF Len(q) >= HistoryLen THEN Append(Tail(q), p) ELSE Append(q, p)

\* One pass of "if tid not in track_history: ...; track_history[tid].append(...)".
HistoryPut(h, tid, p) ==
    [t \in DOMAIN h \cup {tid} |->
        IF t = tid
        THEN dequeAppend(IF tid \in DOMAIN h THEN h[tid] ELSE << >>, p)
        ELSE h[t]]

\* The same append on the unbounded log of the identity (history variable).
LogPut(h, tid, p) ==
    [t \in DOMAIN h \cup {tid} |->
        IF t = tid
        THEN Append(IF tid \in DOMAIN h THEN h[tid] ELSE << >>, p)
        ELSE h[t]]

RECURSIVE UpdateHistoryFresh(_, _, _)
\* A trail update that starts from an empty history at every frame.
UpdateHistoryFresh(h, tracks, k) ==
    IF k = 0 THEN [t \in {} |-> << >>]
    ELSE HistoryPut(UpdateHistoryFresh(h, tracks, k - 1), tracks[k].id, Centroid(tracks[k].bbox))

RECURSIVE UpdateHistory(_, _, _)
\* The for-loop over the frame's tracks, first k tracks.
UpdateHistory(h, tracks, k) ==
    IF k = 0 THEN h
    ELSE HistoryPut(UpdateHistory(h, tracks, k - 1), tracks[k].id, Centroid(tracks[k].bbox))

RECURSIVE UpdateLog(_, _, _)
\* The log after the first k tracks of the frame.
UpdateLog(h, tracks, k) ==
    IF k = 0 THEN h
    ELSE LogPut(UpdateLog(h, tracks, k - 1), tracks[k].id, Centroid(tracks[k].bbox))

EmptyMap == [t \in {} |-> << >>]


-----------------------------------------------------------------------------
(* The export call: create_video_with_tracks / create_video_with_detections *)

\* Values the container metadata may report as its frame count.
TotalFrameValues == {0, MaxFrames}

\* A handler that re-raises: the exception leaves the call.
ExceptResultReraise == "escaped"

\* "except Exception: return False"
ExceptResult == "False"

InitExport ==
    /\ fn \in {"tracks", "detections"}
    /\ has_callback \in BOOLEAN
    /\ IF fn = "tracks"
       THEN /\ shoe_given \in BOOLEAN
            /\ include_roi \in BOOLEAN
            /\ tracks_data \in TrackSets
       ELSE /\ shoe_given = FALSE
            /\ include_roi = FALSE
            /\ tracks_data = << >>
    /\ pc = "import"
    /\ cap = "none"
    /\ out = "none"
    /\ total_frames = 0
    /\ frame_idx = 0
    /\ track_history = EmptyMap
    /\ written = << >>
    /\ calls = << >>
    /\ result = "pending"
    /\ video = "unprobed"
    /\ decoded = 0
    /\ appended = EmptyMap
    /\ raised = {}

\* An early "return False", before the try block.
ReturnEarly ==
    /\ result' = "False"
    /\ pc' = "done"

\* An exception reaches the outer handler: return False, then the finally block.
ToHandler ==
    /\ result' = ExceptResult
    /\ raised' = raised \cup {"outer"}
    /\ pc' = "finally"

\* "import cv2" inside try/except: return False when the backend is missing.
ImportCv2 ==
    /\ pc = "import"
    /\ \/ pc' = "exists" /\ UNCHANGED result
       \/ ReturnEarly
    /\ UNCHANGED <<fn, has_callback, shoe_given, include_roi, tracks_data, cap, out,
                   total_frames, frame_idx, track_history, written, calls,
                   video, decoded, appended, raised>>
    /\ UNCHANGED <<parseVars, queryVars, memVars, uiVars>>

\* "if not os.path.exists(video_path): return False"
CheckExists ==
    /\ pc = "exists"
    /\ \/ pc' = "open" /\ UNCHANGED <<result, video>>
       \/ video' = "missing" /\ ReturnEarly
    /\ UNCHANGED <<fn, has_callback, shoe_given, include_roi, tracks_data, cap, out,
                   total_frames, frame_idx, track_history, written, calls,
                   decoded, appended, raised>>
    /\ UNCHANGED <<parseVars, queryVars, memVars, uiVars>>

\* The decoder is created and isOpened() is never consulted.
OpenCaptureIgnoringFailure ==
    /\ pc = "open"
    /\ \/ cap' = "opened" /\ video' = "readable"
       \/ cap' = "unopened" /\ video' = "unopenable"
    /\ pc' = "props"
    /\ UNCHANGED result
    /\ UNCHANGED <<fn, has_callback, shoe_given, include_roi, tracks_data, out,
                   total_frames, frame_idx, track_history, written, calls,
                   decoded, appended, raised>>
    /\ UNCHANGED <<parseVars, queryVars, memVars, uiVars>>

\* "cap = cv2.VideoCapture(video_path); if not cap.isOpened(): return False"
OpenCapture ==
    /\ pc = "open"
    /\ \/ cap' = "opened" /\ video' = "readable" /\ pc' = "props" /\ UNCHANGED result
       \/ cap' = "unopened" /\ video' = "unopenable" /\ ReturnEarly
    /\ UNCHANGED <<fn, has_callback, shoe_given, include_roi, tracks_data, out,
                   total_frames, frame_idx, track_history, written, calls,
                   decoded, appended, raised>>
    /\ UNCHANGED <<parseVars, queryVars, memVars, uiVars>>

\* fps, width, height, total_frames are read; track_history = {}.
ReadProps ==
    /\ pc = "props"
    /\ total_frames' \in TotalFrameValues
    /\ track_history' = EmptyMap
    /\ pc' = IF fn = "tracks" THEN "setup" ELSE "writer"
    /\ UNCHANGED <<fn, has_callback, shoe_given, include_roi, tracks_data, cap, out,
                   frame_idx, written, calls, result, video, decoded, appended, raised>>
    /\ UNCHANGED <<parseVars, queryVars, memVars, uiVars>>

\* ROI masks and the static shoe map are preloaded, each inside its own
\* try/except: an exception there is swallowed and the export goes on.
PreloadOverlays ==
    /\ pc = "setup"
    /\ \/ UNCHANGED raised
       \/ (include_roi \/ shoe_given) /\ raised' = raised \cup {"inner"}
    /\ pc' = "writer"
    /\ UNCHANGED <<fn, has_callback, shoe_given, include_roi, tracks_data, cap, out,
                   total_frames, frame_idx, track_history, written, calls, result,
                   video, decoded, appended>>
    /\ UNCHANGED <<parseVars, queryVars, memVars, uiVars>>

\* "out = cv2.VideoWriter(...)"; frame_idx = 0.
CreateWriter ==
    /\ pc = "writer"
    /\ out' = "opened"
    /\ frame_idx' = 0
    /\ pc' = "read"
    /\ UNCHANGED <<fn, has_callback, shoe_given, include_roi, tracks_data, cap,
                   total_frames, track_history, written, calls, result,
                   video, decoded, appended, raised>>
    /\ UNCHANGED <<parseVars, queryVars, memVars, uiVars>>

\* "ret, frame = cap.read()" delivers the next frame.
ReadFrame ==
    /\ pc = "read"
    /\ decoded < MaxFrames
    /\ decoded' = decoded + 1
    /\ pc' = IF fn = "tracks" THEN "mask" ELSE "draw"
    /\ UNCHANGED <<fn, has_callback, shoe_given, include_roi, tracks_data, cap, out,
                   total_frames, frame_idx, track_history, written, calls, result,
                   video, appended, raised>>
    /\ UNCHANGED <<parseVars, queryVars, memVars, uiVars>>

\* "if not ret: break" and "return True".
ReadEnd ==
    /\ pc = "read"
    /\ result' = "True"
    /\ pc' = "finally"
    /\ UNCHANGED <<fn, has_callback, shoe_given, include_roi, tracks_data, cap, out,
                   total_frames, frame_idx, track_history, written, calls,
                   video, decoded, appended, raised>>
    /\ UNCHANGED <<parseVars, queryVars, memVars, uiVars>>

\* ROI tinting of the frame, inside "try: ... except Exception: pass".
ApplyRoiMasks ==
    /\ pc = "mask"
    /\ \/ UNCHANGED raised
       \/ include_roi /\ raised' = raised \cup {"inner"}
    /\ pc' = "tracks"
    /\ UNCHANGED <<fn, has_callback, shoe_given, include_roi, tracks_data, cap, out,
                   total_frames, frame_idx, track_history, written, calls, result,
                   video, decoded, appended>>
    /\ UNCHANGED <<parseVars, queryVars, memVars, uiVars>>

\* The frame's tracks are looked up and each centroid is appended to its trail.
UpdateTrails ==
    /\ pc = "tracks"
    /\ LET tracks == get_frame_tracks(tracks_data, frame_idx)
       IN  /\ track_history' = UpdateHistory(track_history, tracks, Len(tracks))
           /\ appended' = UpdateLog(appended, tracks, Len(tracks))
    /\ pc' = "draw"
    /\ UNCHANGED <<fn, has_callback, shoe_given, include_roi, tracks_data, cap, out,
                   total_frames, frame_idx, written, calls, result, video, decoded, raised>>
    /\ UNCHANGED <<parseVars, queryVars, memVars, uiVars>>

\* The lookup or the loop over the frame's tracks raises after k appends.
UpdateTrailsRaises ==
    /\ pc = "tracks"
    /\ LET tracks == get_frame_tracks(tracks_data, frame_idx)
       IN  \E k \in 0..Len(tracks) :
             /\ track_history' = UpdateHistory(track_history, tracks, k)
             /\ appended' = UpdateLog(appended, tracks, k)
    /\ ToHandler
    /\ UNCHANGED <<fn, has_callback, shoe_given, include_roi, tracks_data, cap, out,
                   total_frames, frame_idx, written, calls, video, decoded>>
    /\ UNCHANGED <<parseVars, queryVars, memVars, uiVars>>

\* draw_tracks_on_image, or get_frame_detections + draw_bboxes_on_image.
DrawOverlays ==
    /\ pc = "draw"
    /\ pc' = IF fn = "tracks" THEN "summary" ELSE "write"
    /\ UNCHANGED <<fn, has_callback, shoe_given, include_roi, tracks_data, cap, out,
                   total_frames, frame_idx, track_history, written, calls, result,
                   video, decoded, appended, raised>>
    /\ UNCHANGED <<parseVars, queryVars, memVars, uiVars>>

\* The per-frame shoe summary box, inside "try: ... except Exception: pass".
DrawShoeSummary ==
    /\ pc = "summary"
    /\ \/ UNCHANGED raised
       \/ shoe_given /\ raised' = raised \cup {"inner"}
    /\ pc' = "write"
    /\ UNCHANGED <<fn, has_callback, shoe_given, include_roi, tracks_data, cap, out,
                   total_frames, frame_idx, track_history, written, calls, result,
                   video, decoded, appended>>
    /\ UNCHANGED <<parseVars, queryVars, memVars, uiVars>>

\* "out.write(frame)"
WriteFrame ==
    /\ pc = "write"
    /\ written' = Append(written, frame_idx)
    /\ pc' = "progress"
    /\ UNCHANGED <<fn, has_callback, shoe_given, include_roi, tracks_data, cap, out,
                   total_frames, frame_idx, track_history, calls, result,
                   video, decoded, appended, raised>>
    /\ UNCHANGED <<parseVars, queryVars, memVars, uiVars>>

\* The callback is given a 1-based frame number.
ProgressArgsOneBased(i, n) == << i + 1, n >>

\* The arguments of "progress_callback(frame_idx, total_frames)".
ProgressArgs(i, n) == << i, n >>

\* "if progress_callback: progress_callback(...)"; "frame_idx += 1".
Progress ==
    /\ pc = "progress"
    /\ calls' = IF has_callback
                THEN Append(calls, ProgressArgs(frame_idx, total_frames))
                ELSE calls
    /\ frame_idx' = frame_idx + 1
    /\ pc' = "read"
    /\ UNCHANGED <<fn, has_callback, shoe_given, include_roi, tracks_data, cap, out,
                   total_frames, track_history, written, result,
                   video, decoded, appended, raised>>
    /\ UNCHANGED <<parseVars, queryVars, memVars, uiVars>>

\* The callback is invoked and raises.
ProgressRaises ==
    /\ pc = "progress"
    /\ has_callback
    /\ calls' = Append(calls, ProgressArgs(frame_idx, total_frames))
    /\ ToHandler
    /\ UNCHANGED <<fn, has_callback, shoe_given, include_roi, tracks_data, cap, out,
                   total_frames, frame_idx, track_history, written,
                   video, decoded, appended>>
    /\ UNCHANGED <<parseVars, queryVars, memVars, uiVars>>

\* A statement of the try block outside the nested handlers raises before it
\* has any effect: reading the properties, creating the encoder, cap.read(),
\* drawing, out.write().
StatementRaises ==
    /\ pc \in {"props", "writer", "read", "draw", "write"}
    /\ ToHandler
    /\ UNCHANGED <<fn, has_callback, shoe_given, include_roi, tracks_data, cap, out,
                   total_frames, frame_idx, track_history, written, calls,
                   video, decoded, appended>>
    /\ UNCHANGED <<parseVars, queryVars, memVars, uiVars>>

\* "finally: cap.release(); if 'out' in locals(): out.release()"
Finally ==
    /\ pc = "finally"
    /\ cap' = "released"
    /\ out' = IF out = "none" THEN "none" ELSE "released"
    /\ pc' = "done"
    /\ UNCHANGED <<fn, has_callback, shoe_given, include_roi, tracks_data,
                   total_frames, frame_idx, track_history, written, calls, result,
                   video, decoded, appended, raised>>
    /\ UNCHANGED <<parseVars, queryVars, memVars, uiVars>>

NextExport ==
    \/ ImportCv2
    \/ CheckExists
    \/ OpenCapture
    \/ ReadProps
    \/ PreloadOverlays
    \/ CreateWriter
    \/ ReadFrame
    \/ ReadEnd
    \/ ApplyRoiMasks
    \/ UpdateTrails
    \/ UpdateTrailsRaises
    \/ DrawOverlays
    \/ DrawShoeSummary
    \/ WriteFrame
    \/ Progress
    \/ ProgressRaises
    \/ StatementRaises
    \/ Finally

\* The variables of a specification that makes no export call.
ExportIdle ==
    /\ fn = "none"
    /\ has_callback = FALSE
    /\ shoe_given = FALSE
    /\ include_roi = FALSE
    /\ tracks_data = << >>
    /\ pc = "idle"
    /\ cap = "none"
    /\ out = "none"
    /\ total_frames = 0
    /\ frame_idx = 0
    /\ track_history = EmptyMap
    /\ written = << >>
    /\ calls = << >>
    /\ result = "pending"
    /\ video = "unprobed"
    /\ decoded = 0
    /\ appended = EmptyMap
    /\ raised = {}

\* The variables of a specification that makes no parser call.
ParseIdle ==
    /\ fs = << >>
    /\ parse_log = << >>

\* The variables of a specification that makes no detection query.
QueryIdle ==
    /\ det_data = None
    /\ query = None
    /\ prev_query = None

\* The variables of a specification that keeps no object on the heap.
MemIdle ==
    /\ heap = << >>
    /\ trace = << >>

\* The variables of a specification in which the dashboard page is not open.
UiIdle ==
    /\ session = None
    /\ loaded = << >>
    /\ view = None

Init == InitExport /\ ParseIdle /\ QueryIdle /\ MemIdle /\ UiIdle

Next == NextExport

Spec == Init /\ [][Next]_vars

\* The call runs in one thread and every statement of it returns or raises:
\* as long as a step of the function is possible, one is taken.
SpecFair == Init /\ [][Next]_vars /\ WF_vars(Next)

-----------------------------------------------------------------------------
(* JSON documents, as json.load returns them *)

JNull == [t |-> "null"]
JNum(n) == [t |-> "num", n |-> n]
\* The literal Infinity, which json.load reads as float('inf').
JInf == [t |-> "inf"]
JStr(s) == [t |-> "str", s |-> s]
JArr(items) == [t |-> "arr", items |-> items]
\* A dict: its keys in document order and the value of each.
JObj(keys, vals) == [t |-> "obj", keys |-> keys, vals |-> vals]
\* What json.load raises on: the text is no JSON document.
Invalid == [t |-> "invalid"]

\* bool(v)
Truthy(v) ==
    CASE v.t = "null" -> FALSE
      [] v.t = "num"  -> v.n # 0
      [] v.t = "str"  -> v.s # ""
      [] v.t = "arr"  -> v.items # << >>
      [] v.t = "obj"  -> v.keys # << >>
      [] OTHER        -> TRUE

HasKey(obj, key) == \E i \in 1..Len(obj.keys) : obj.keys[i] = key

\* obj.get(key, default)
ObjGet(obj, key, default) ==
    IF HasKey(obj, key)
    THEN obj.vals[CHOOSE i \in 1..Len(obj.keys) : obj.keys[i] = key]
    ELSE default

\* obj[key] = val
ObjSet(obj, key, val) ==
    IF HasKey(obj, key)
    THEN JObj(obj.keys, [i \in 1..Len(obj.keys) |->
                            IF obj.keys[i] = key THEN val ELSE obj.vals[i]])
    ELSE JObj(Append(obj.keys, key), Append(obj.vals, val))

\* The strings int() accepts, among the strings of the model.
IsIntStr(s) == s \in {"0", "1", "01", "2", "7"}
IntOfStr(s) == CASE s = "0" -> 0 [] s \in {"1", "01"} -> 1 [] s = "2" -> 2 [] OTHER -> 7

\* str.lower(), on the strings of the model.
Lower(s) ==
    CASE s = "Small_BBox" -> "small_bbox"
      [] s = "Sneakers"   -> "sneakers"
      [] OTHER            -> s

\* What a call did: it returned a value, or an exception escaped from it.
Returned(v) == [raised |-> FALSE, value |-> v]
Raised(e) == [raised |-> TRUE, exc |-> e]

-----------------------------------------------------------------------------
(* Files: a missing file, or a text seen both as a JSON document and as lines *)

Absent == [t |-> "absent"]
File(json, lines) == [t |-> "file", json |-> json, lines |-> lines]

\* Fields of a track line: a finite number (in halves: h stands for h / 2),
\* "inf", "nan", or text float() rejects.
Num(h) == [k |-> "num", h |-> h]
Inf == [k |-> "inf"]
NaN == [k |-> "nan"]
Bad == [k |-> "bad"]

BlankLine == [kind |-> "blank", f |-> << >>]
CommentLine == [kind |-> "comment", f |-> << >>]
CommaLine(fields) == [kind |-> "comma", f |-> fields]
SpaceLine(fields) == [kind |-> "space", f |-> fields]

RECURSIVE SeqsUpTo(_, _)
\* The sequences over S of length at most n.
SeqsUpTo(S, n) ==
    IF n = 0 THEN { << >> }
    ELSE LET shorter == SeqsUpTo(S, n - 1)
         IN  shorter \cup { Append(q, x) : q \in { r \in shorter : Len(r) = n - 1 }, x \in S }

-----------------------------------------------------------------------------
(* load_detections *)

EmptyDetections ==
    JObj(<<"video_info", "detection_info", "results">>,
         <<JObj(<< >>, << >>), JObj(<< >>, << >>), JArr(<< >>)>>)

load_detections(file) ==
    IF file.t = "absent" THEN Returned(EmptyDetections)
    ELSE LET data == file.json IN
         \* json.load raises, or data.get raises AttributeError: both are caught.
         IF data.t # "obj" THEN Returned(EmptyDetections)
         ELSE IF ObjGet(data, "results", JArr(<< >>)).t # "arr"
              THEN Returned(ObjSet(data, "results", JArr(<< >>)))
              ELSE Returned(data)

-----------------------------------------------------------------------------
(* load_mot_tracks *)

EmptyTracks(path) == [tracks |-> << >>, source |-> path]

\* line.split(","), and line.split() when that gave fewer than 6 parts. A
\* comma-separated line is one whitespace-delimited word and the reverse.
LineParts(line) ==
    LET byComma == IF line.kind = "comma" THEN line.f ELSE << Bad >>
        bySpace == IF line.kind = "space" THEN line.f ELSE << Bad >>
    IN  IF Len(byComma) < 6 THEN bySpace ELSE byComma

\* int(v) of the float h / 2: truncation toward zero.
TruncHalves(h) == IF h >= 0 THEN h \div 2 ELSE 0 - ((0 - h) \div 2)

\* round(v) of the float h / 2: Python rounds a tie to the even integer.
RoundHalves(h) ==
    IF h % 2 = 0 THEN h \div 2
    ELSE LET k == h \div 2 IN IF k % 2 = 0 THEN k ELSE k + 1

Max(a, b) == IF a >= b THEN a ELSE b

\* The inner try of the loop: the six or seven fields are converted;
\* any ValueError / OverflowError there skips the line.
FieldsConvert(parts) ==
    /\ parts[1].k = "num"                \* int(float(..)): inf and nan raise too
    /\ parts[2].k = "num"
    /\ \A i \in 3..6 : parts[i].k # "bad"
    /\ Len(parts) >= 7 => parts[7].k # "bad"

\* The frame number is shifted to 0-based without the max(0, ..) clamp.
LineTrackUnclamped(parts) ==
    [frame |-> TruncHalves(parts[1].h) - 1,
     id    |-> TruncHalves(parts[2].h),
     bbox  |-> [x1 |-> RoundHalves(parts[3].h),
                y1 |-> RoundHalves(parts[4].h),
                x2 |-> RoundHalves(parts[3].h + parts[5].h),
                y2 |-> RoundHalves(parts[4].h + parts[6].h)],
     conf  |-> IF Len(parts) >= 7 THEN parts[7] ELSE None]

\* The fifth and sixth fields are read as the second corner, not as a size.
LineTrackCorners(parts) ==
    [frame |-> Max(0, TruncHalves(parts[1].h) - 1),
     id    |-> TruncHalves(parts[2].h),
     bbox  |-> [x1 |-> RoundHalves(parts[3].h),
                y1 |-> RoundHalves(parts[4].h),
                x2 |-> RoundHalves(parts[5].h),
                y2 |-> RoundHalves(parts[6].h)],
     conf  |-> IF Len(parts) >= 7 THEN parts[7] ELSE None]

\* The track point a converted line gives.
LineTrack(parts) ==
    [frame |-> Max(0, TruncHalves(parts[1].h) - 1),
     id    |-> TruncHalves(parts[2].h),
     bbox  |-> [x1 |-> RoundHalves(parts[3].h),
                y1 |-> RoundHalves(parts[4].h),
                x2 |-> RoundHalves(parts[3].h + parts[5].h),
                y2 |-> RoundHalves(parts[4].h + parts[6].h)],
     conf  |-> IF Len(parts) >= 7 THEN parts[7] ELSE None]

RECURSIVE MotParse(_, _)
\* The loop over the first k lines: the tracks so far, and whether an exception
\* left the loop (int(round(inf)) is outside the inner try, inside the outer).
MotParse(lines, k) ==
    IF k = 0 THEN [aborted |-> FALSE, tracks |-> << >>]
    ELSE LET prev == MotParse(lines, k - 1)
             line == lines[k]
             parts == LineParts(line)
         IN  IF prev.aborted THEN prev
             ELSE IF line.kind \in {"blank", "comment"} THEN prev
             ELSE IF Len(parts) < 6 THEN prev
             ELSE IF ~FieldsConvert(parts) THEN prev
             ELSE IF \E i \in 3..6 : parts[i].k # "num"
                  THEN [aborted |-> TRUE, tracks |-> prev.tracks]
                  ELSE [aborted |-> FALSE, tracks |-> Append(prev.tracks, LineTrack(parts))]

load_mot_tracks(file, path) ==
    IF file.t = "absent" THEN Returned(EmptyTracks(path))
    ELSE Returned([tracks |-> MotParse(file.lines, Len(file.lines)).tracks,
                   source |-> path])

-----------------------------------------------------------------------------
(* load_shoe_labels *)

EmptyShoeLabels(path) == [labels |-> << >>, source |-> path]

\* int(v) for a JSON value: defined on ints and on numeric strings.
IntConverts(v) == v.t = "num" \/ (v.t = "str" /\ IsIntStr(v.s))
IntOf(v) == IF v.t = "num" THEN v.n ELSE IntOfStr(v.s)

\* "float(conf) if conf is not None else None", None when float() raises.
\* A confidence is kept in hundredths: 65 stands for 0.65.
ConfOf(v) ==
    CASE v.t = "num" -> v
      [] v.t = "inf" -> v
      [] v.t = "str" /\ IsIntStr(v.s) -> JNum(100 * IntOfStr(v.s))
      [] OTHER -> JNull

\* The class is compared with the upper-case spelling, without lower().
IsSmallBboxUpper(cls) == cls.t = "str" /\ cls.s = "SMALL_BBOX"

\* str(cls).lower() == "small_bbox"
IsSmallBbox(cls) == cls.t = "str" /\ Lower(cls.s) = "small_bbox"

RECURSIVE ShoeParse(_, _)
\* The loop over the first k entries of the document: the labels so far, or
\* the exception that escaped.
ShoeParse(raw, k) ==
    IF k = 0 THEN [raised |-> FALSE, labels |-> << >>]
    ELSE LET prev == ShoeParse(raw, k - 1)
             key == raw.keys[k]
             item == raw.vals[k]
             cls == ObjGet(item, "class", JNull)
             frame == ObjGet(item, "frame", JNum(-1))
         IN  IF prev.raised THEN prev
             ELSE IF item.t # "obj" THEN prev
             ELSE IF IsSmallBbox(cls) THEN prev
             \* int(float('inf')) raises OverflowError, which is not caught
             ELSE IF frame.t = "inf" THEN [raised |-> TRUE, labels |-> << >>]
             ELSE IF ~IntConverts(frame) \/ ~IsIntStr(key) THEN prev
             ELSE IF IntOf(frame) < 0 THEN prev
             ELSE [raised |-> FALSE,
                   labels |-> Append(prev.labels,
                                [frame |-> IntOf(frame), class |-> cls,
                                 confidence |-> ConfOf(ObjGet(item, "confidence", JNull)),
                                 tracker_id |-> IntOfStr(key)])]

\* The file is opened outside the try, with no os.path.exists check before.
load_shoe_labels_unguarded(file, path) ==
    IF file.t = "absent" THEN Raised("FileNotFoundError")
    ELSE IF file.json.t = "invalid" THEN Returned(EmptyShoeLabels(path))
    ELSE IF ~Truthy(file.json) THEN Returned(EmptyShoeLabels(path))
    ELSE IF file.json.t # "obj" THEN Raised("AttributeError")
    ELSE LET r == ShoeParse(file.json, Len(file.json.keys))
         IN  IF r.raised THEN Raised("OverflowError")
             ELSE Returned([labels |-> r.labels, source |-> path])

load_shoe_labels(file, path) ==
    IF file.t = "absent" THEN Returned(EmptyShoeLabels(path))
    ELSE IF file.json.t = "invalid" THEN Returned(EmptyShoeLabels(path))
    \* "(raw or {}).items()" is outside the try
    ELSE IF ~Truthy(file.json) THEN Returned(EmptyShoeLabels(path))
    ELSE IF file.json.t # "obj" THEN Raised("AttributeError")
    ELSE LET r == ShoeParse(file.json, Len(file.json.keys))
         IN  IF r.raised THEN Raised("OverflowError")
             ELSE Returned([labels |-> r.labels, source |-> path])

-----------------------------------------------------------------------------
(* Parser calls on a small file system (specification SpecParse) *)

\* Largest number of parser calls in one behaviour.
MaxCalls == 2

Paths == {"a.json", "b.txt"}

ShoeItem(cls, conf, frame) ==
    JObj(<<"class", "confidence", "frame">>, <<cls, conf, frame>>)

Detection(cls, conf) == JObj(<<"class", "confidence">>, <<JStr(cls), conf>>)

DetEntry(frame, dets) == JObj(<<"frame", "detections">>, <<frame, JArr(dets)>>)

\* A JSON document written on one line, read as a track line: whitespace
\* separates it into words float() rejects.
ShortJsonLines == << SpaceLine(<< Bad >>) >>
LongJsonLines == << SpaceLine(<< Bad, Bad, Bad, Bad, Bad, Bad, Bad >>) >>

\* frame,id,x,y,w,h[,conf] lines with a comment and a blank line.
TrackText ==
    File(Invalid,
         << CommentLine,
            CommaLine(<< Num(2), Num(2), Num(1), Num(3), Num(1), Num(4) >>),
            BlankLine,
            SpaceLine(<< Num(0), Num(4), Num(5), Num(0), Num(3), Num(3), Num(1) >>) >>)

\* No line of it is a track line.
JunkText ==
    File(Invalid,
         << CommaLine(<< Num(2), Bad, Num(1), Num(3), Num(1), Num(4) >>),
            CommaLine(<< Num(2), Num(2), Num(1) >>),
            SpaceLine(<< Bad >>),
            CommaLine(<< Inf, Num(2), Num(1), Num(3), Num(1), Num(4) >>),
            CommaLine(<< Num(2), Num(2), Num(1), Num(3), Num(1), Num(4), Bad >>) >>)

\* A line whose x is "inf", followed by a well-formed line.
InfText ==
    File(Invalid,
         << CommaLine(<< Num(2), Num(2), Inf, Num(3), Num(1), Num(4) >>),
            CommaLine(<< Num(4), Num(2), Num(1), Num(3), Num(1), Num(4) >>) >>)

ArrayDoc == File(JArr(<< JNum(1) >>), ShortJsonLines)
EmptyArrayDoc == File(JArr(<< >>), ShortJsonLines)
NullDoc == File(JNull, ShortJsonLines)
NumberDoc == File(JNum(5), ShortJsonLines)
EmptyObjectDoc == File(JObj(<< >>, << >>), ShortJsonLines)

ShoeDoc ==
    File(JObj(<< "1", "2", "7" >>,
              << ShoeItem(JStr("Sneakers"), JNum(65), JNum(3)),
                 ShoeItem(JStr("Small_BBox"), JNum(90), JNum(4)),
                 ShoeItem(JStr("Boots"), JNull, JStr("7")) >>),
         LongJsonLines)

\* Entries that are not objects, a key and a frame that are no integers, a
\* negative frame.
ShoeBadDoc ==
    File(JObj(<< "1", "x", "2", "0" >>,
              << JNum(5),
                 ShoeItem(JStr("Sneakers"), JNum(65), JNum(3)),
                 ShoeItem(JStr("Sneakers"), JStr("high"), JStr("abc")),
                 ShoeItem(JStr("Boots"), JNum(40), JNum(-1)) >>),
         LongJsonLines)

ShoeInfDoc ==
    File(JObj(<< "1" >>, << ShoeItem(JStr("Sneakers"), JNum(50), JInf) >>), LongJsonLines)

DetDoc ==
    File(JObj(<< "video_info", "results" >>,
              << JObj(<< >>, << >>),
                 JArr(<< DetEntry(JNum(0), << Detection("person", JNum(90)) >>),
                         DetEntry(JNum(1), << >>) >>) >>),
         LongJsonLines)

DetBadResultsDoc == File(JObj(<< "results" >>, << JNum(5) >>), ShortJsonLines)

ModelFiles ==
    { Absent, TrackText, JunkText, InfText, ArrayDoc, EmptyArrayDoc, NullDoc, NumberDoc,
      EmptyObjectDoc, ShoeDoc, ShoeBadDoc, ShoeInfDoc, DetDoc, DetBadResultsDoc }

\* Any file, or none, at each path; no call made yet.
ParseStart ==
    /\ fs \in [Paths -> ModelFiles]
    /\ parse_log = << >>

InitParse == ExportIdle /\ ParseStart /\ QueryIdle /\ MemIdle /\ UiIdle

CallLoadDetections ==
    /\ Len(parse_log) < MaxCalls
    /\ \E p \in Paths :
         parse_log' = Append(parse_log, [fn |-> "load_detections", path |-> p,
                                         outcome |-> load_detections(fs[p])])
    /\ UNCHANGED <<fs, exportVars, queryVars, memVars, uiVars>>

CallLoadMotTracks ==
    /\ Len(parse_log) < MaxCalls
    /\ \E p \in Paths :
         parse_log' = Append(parse_log, [fn |-> "load_mot_tracks", path |-> p,
                                         outcome |-> load_mot_tracks(fs[p], p)])
    /\ UNCHANGED <<fs, exportVars, queryVars, memVars, uiVars>>

CallLoadShoeLabels ==
    /\ Len(parse_log) < MaxCalls
    /\ \E p \in Paths :
         parse_log' = Append(parse_log, [fn |-> "load_shoe_labels", path |-> p,
                                         outcome |-> load_shoe_labels(fs[p], p)])
    /\ UNCHANGED <<fs, exportVars, queryVars, memVars, uiVars>>

NextParse ==
    \/ CallLoadDetections
    \/ CallLoadMotTracks
    \/ CallLoadShoeLabels

SpecParse == InitParse /\ [][NextParse]_vars

-----------------------------------------------------------------------------
(* load_mot_tracks on generated track files (specification SpecLines) *)

\* Largest number of lines of a generated track file.
MaxLines == 2

\* Frame fields, in halves: -1, 0, 0.5, 1, 1.5, 2.
FrameFields == { Num(h) : h \in {0 - 2, 0, 1, 2, 3, 4} }

\* Corner coordinates -0.5 .. 1.5 and sizes -0.5 .. 1.5, in halves.
CornerHalves == (0 - 1)..3
SizeHalves == (0 - 1)..3

\* frame,id,x,y,w,h lines: every frame field with one box, and every x,w and
\* every y with h = 0.5 or 1, with frame 1. The whitespace-delimited form of one of them, and one
\* with a confidence.
TrackLines ==
    { CommaLine(<< f, Num(2), Num(2), Num(2), Num(2), Num(2) >>) : f \in FrameFields }
      \cup { CommaLine(<< Num(2), Num(4), Num(x), Num(2), Num(w), Num(2) >>) :
                 x \in CornerHalves, w \in SizeHalves }
      \cup { CommaLine(<< Num(2), Num(6), Num(0), Num(y), Num(0), Num(h) >>) :
                 y \in CornerHalves, h \in {1, 2} }
      \cup { SpaceLine(<< Num(6), Num(8), Num(1), Num(1), Num(1), Num(1) >>),
             CommaLine(<< Num(4), Num(8), Num(1), Num(1), Num(1), Num(1), Num(1) >>) }

\* Lines that are no track line: blank, comment, too few fields, a field
\* float() rejects, and an x or a w that float() reads as inf or nan.
OtherLines ==
    { BlankLine, CommentLine,
      CommaLine(<< Num(2), Num(2), Num(1) >>),
      SpaceLine(<< Bad >>),
      CommaLine(<< Num(2), Bad, Num(1), Num(3), Num(1), Num(4) >>),
      CommaLine(<< Num(2), Num(2), Num(1), Num(3), Num(1), Num(4), Bad >>),
      CommaLine(<< Inf, Num(2), Num(1), Num(3), Num(1), Num(4) >>),
      CommaLine(<< Num(2), Num(2), Inf, Num(3), Num(1), Num(4) >>),
      CommaLine(<< Num(2), Num(2), Num(1), Num(3), NaN, Num(4) >>) }

LineChoices == TrackLines \cup OtherLines

TrackFilePath == "b.txt"

\* A generated track file at b.txt, nothing at the other path; no call made yet.
LinesStart ==
    /\ \E lines \in SeqsUpTo(LineChoices, MaxLines) :
         fs = [p \in Paths |-> IF p = TrackFilePath THEN File(Invalid, lines) ELSE Absent]
    /\ parse_log = << >>

InitLines == ExportIdle /\ LinesStart /\ QueryIdle /\ MemIdle /\ UiIdle

\* load_mot_tracks(path), once
ParseTrackFile ==
    /\ parse_log = << >>
    /\ CallLoadMotTracks

NextLines == ParseTrackFile

SpecLines == InitLines /\ [][NextLines]_vars

-----------------------------------------------------------------------------
(* Views of the shoe labels: get_frame_shoes, get_tracker_shoes_static, *)
(* summarize_frame_shoes, summarize_all_shoes *)

\* dict.get(key, default) and dict[key] = val on a dict kept as a function.
MapGet(m, key, default) == IF key \in DOMAIN m THEN m[key] ELSE default
MapPut(m, key, val) == [x \in DOMAIN m \cup {key} |-> IF x = key THEN val ELSE m[x]]

\* The records of the given 0-based frame, in label order.
get_frame_shoes(data, idx) ==
    SelectSeq(data.labels, LAMBDA it : it.frame = idx)

\* it.get("confidence", 0.0) or 0.0, in hundredths
ConfOrZero(it) == IF it.confidence.t = "num" THEN it.confidence.n ELSE 0

\* The replacement test uses >=: a later record of equal confidence wins.
StaticReplacesOnTie(prev, conf) == prev = None \/ conf >= prev.confidence

\* prev is None or conf > prev.get("confidence", 0.0)
StaticReplaces(prev, conf) == prev = None \/ conf > prev.confidence

RECURSIVE StaticFold(_, _)
\* The loop of get_tracker_shoes_static over the first k labels.
StaticFold(labels, k) ==
    IF k = 0 THEN EmptyMap
    ELSE LET res == StaticFold(labels, k - 1)
             it == labels[k]
             conf == ConfOrZero(it)
             prev == MapGet(res, it.tracker_id, None)
         IN  IF StaticReplaces(prev, conf)
             THEN MapPut(res, it.tracker_id,
                         [class |-> it.class, confidence |-> conf, frame |-> it.frame])
             ELSE res

get_tracker_shoes_static(data) == StaticFold(data.labels, Len(data.labels))

\* it.get("class") or "Unknown"
ClassOrUnknown(it) ==
    IF it.class.t = "str" /\ it.class.s # "" THEN it.class.s ELSE "Unknown"

RECURSIVE CountFold(_, _)
\* counts after the first k items.
CountFold(items, k) ==
    IF k = 0 THEN EmptyMap
    ELSE LET counts == CountFold(items, k - 1)
             cls == ClassOrUnknown(items[k])
         IN  MapPut(counts, cls, MapGet(counts, cls, 0) + 1)

RECURSIVE ConfFold(_, _)
\* confs after the first k items: class -> the confidences seen, in order.
ConfFold(items, k) ==
    IF k = 0 THEN EmptyMap
    ELSE LET confs == ConfFold(items, k - 1)
             cls == ClassOrUnknown(items[k])
             c == items[k].confidence
         IN  IF c.t # "null"
             THEN MapPut(confs, cls, Append(MapGet(confs, cls, << >>), c.n))
             ELSE confs

RECURSIVE SumSeq(_)
SumSeq(q) == IF q = << >> THEN 0 ELSE Head(q) + SumSeq(Tail(q))

\* float(np.mean(arr)), kept as the fraction num / den of hundredths.
Mean(arr) == [num |-> SumSeq(arr), den |-> Len(arr)]

\* The sum of the confidences of a class is divided by counts[cls], the number
\* of its records with or without a confidence.
SummarizeOverCount(items) ==
    LET counts == CountFold(items, Len(items))
        confs == ConfFold(items, Len(items))
    IN  [counts |-> counts,
         avg_conf |-> [cls \in DOMAIN confs |->
                          [num |-> SumSeq(confs[cls]), den |-> counts[cls]]]]

\* The body shared by summarize_frame_shoes and summarize_all_shoes.
Summarize(items) ==
    LET counts == CountFold(items, Len(items))
        confs == ConfFold(items, Len(items))
    IN  [counts |-> counts,
         avg_conf |-> [cls \in DOMAIN confs |-> Mean(confs[cls])]]

summarize_frame_shoes(data, idx) == Summarize(get_frame_shoes(data, idx))

summarize_all_shoes(data) == Summarize(data.labels)

-----------------------------------------------------------------------------
(* Shoe-label files and their views (specification SpecShoes) *)

\* Largest number of entries of a generated shoe-label document.
MaxEntries == 2

\* Largest frame number a generated entry carries.
MaxShoeFrame == 1

\* Keys of the document: "1" and "01" name the same track identity.
ShoeKeys == { "1", "01", "2" }

ShoeConfidences == { JNum(40), JNum(65), JNull }

\* Entries: on frame 0 one class with every confidence, another with and
\* without confidence, the sentinel class, no class; two records on each later
\* frame; a record with confidence 0, an upper-case sentinel, a negative frame,
\* a non-object.
ShoeEntries ==
    { ShoeItem(JStr("Sneakers"), p, JNum(0)) : p \in ShoeConfidences }
      \cup { ShoeItem(JStr("Boots"), JNum(65), JNum(0)),
             ShoeItem(JStr("Boots"), JNull, JNum(0)),
             ShoeItem(JStr("small_bbox"), JNum(65), JNum(0)),
             ShoeItem(JNull, JNum(40), JNum(0)) }
      \cup { ShoeItem(JStr("Sneakers"), JNum(40), JNum(f)) : f \in 1..MaxShoeFrame }
      \cup { ShoeItem(JStr("Boots"), JNull, JNum(f)) : f \in 1..MaxShoeFrame }
      \cup { ShoeItem(JStr("Boots"), JNum(0), JNum(0)),
             ShoeItem(JStr("Small_BBox"), JNum(65), JNum(0)),
             ShoeItem(JStr("Sneakers"), JNum(65), JNum(0 - 1)),
             JNum(5) }

\* Key lists of a JSON object: no key twice.
ShoeKeyLists ==
    { q \in SeqsUpTo(ShoeKeys, MaxEntries) : \A i, j \in 1..Len(q) : i # j => q[i] # q[j] }

\* The documents with at most MaxEntries entries under distinct keys.
ShoeDocs ==
    UNION { { JObj(k, v) : v \in { w \in SeqsUpTo(ShoeEntries, MaxEntries) : Len(w) = Len(k) } } :
            k \in ShoeKeyLists }

ShoeFilePath == "a.json"

ShoesStart ==
    /\ \E doc \in ShoeDocs :
         fs = [p \in Paths |-> IF p = ShoeFilePath THEN File(doc, LongJsonLines) ELSE Absent]
    /\ parse_log = << >>

InitShoes == ExportIdle /\ ShoesStart /\ QueryIdle /\ MemIdle /\ UiIdle

\* shoe_data = load_shoe_labels(path)
LoadShoeFile ==
    /\ parse_log = << >>
    /\ parse_log' = << [fn |-> "load_shoe_labels", path |-> ShoeFilePath,
                        outcome |-> load_shoe_labels(fs[ShoeFilePath], ShoeFilePath)] >>
    /\ UNCHANGED <<fs, exportVars, queryVars, memVars, uiVars>>

\* The labels the first call returned.
shoe_data == parse_log[1].outcome.value

ShoesLoaded == Len(parse_log) = 1 /\ ~parse_log[1].outcome.raised

\* get_tracker_shoes_static(shoe_data)
CallStaticShoes ==
    /\ ShoesLoaded
    /\ parse_log' = Append(parse_log, [fn |-> "get_tracker_shoes_static",
                                       path |-> parse_log[1].path,
                                       outcome |-> Returned(get_tracker_shoes_static(shoe_data))])
    /\ UNCHANGED <<fs, exportVars, queryVars, memVars, uiVars>>

\* summarize_frame_shoes(shoe_data, frame_idx)
CallSummarizeFrame ==
    /\ ShoesLoaded
    /\ \E f \in 0..(MaxShoeFrame + 1) :
         parse_log' = Append(parse_log, [fn |-> "summarize_frame_shoes",
                                         path |-> parse_log[1].path,
                                         frame_idx |-> f,
                                         outcome |-> Returned(summarize_frame_shoes(shoe_data, f))])
    /\ UNCHANGED <<fs, exportVars, queryVars, memVars, uiVars>>

\* summarize_all_shoes(shoe_data)
CallSummarizeAll ==
    /\ ShoesLoaded
    /\ parse_log' = Append(parse_log, [fn |-> "summarize_all_shoes",
                                       path |-> parse_log[1].path,
                                       outcome |-> Returned(summarize_all_shoes(shoe_data))])
    /\ UNCHANGED <<fs, exportVars, queryVars, memVars, uiVars>>

NextShoes ==
    \/ LoadShoeFile
    \/ CallStaticShoes
    \/ CallSummarizeFrame
    \/ CallSummarizeAll

SpecShoes == InitShoes /\ [][NextShoes]_vars

-----------------------------------------------------------------------------
(* get_frame_detections *)

\* "int(item.get("frame")) == int(frame_idx)" inside try/except: an entry that
\* is no dict, or whose frame int() rejects, never matches.
ScanMatches(item, idx) ==
    /\ item.t = "obj"
    /\ IntConverts(ObjGet(item, "frame", JNull))
    /\ IntOf(ObjGet(item, "frame", JNull)) = idx

\* "item.get("detections", []) or []"
EntryDetections(item) ==
    LET d == ObjGet(item, "detections", JArr(<< >>))
    IN  IF d.t = "arr" THEN d.items ELSE << >>

\* The linear scan by frame field: the first matching entry, or nothing.
ScanDetections(items, idx) ==
    IF \E i \in 1..Len(items) : ScanMatches(items[i], idx)
    THEN EntryDetections(items[CHOOSE i \in 1..Len(items) :
                                   /\ ScanMatches(items[i], idx)
                                   /\ \A j \in 1..(i - 1) : ~ScanMatches(items[j], idx)])
    ELSE << >>

\* "isinstance(res, dict) and res.get("frame") == frame_idx"
DirectMatches(res, idx) ==
    /\ res.t = "obj"
    /\ ObjGet(res, "frame", JNull) = JNum(idx)

\* The fast path takes results[frame_idx] whatever its frame field says.
LookupDetectionsUnchecked(data, idx) ==
    LET items == ObjGet(data, "results", JArr(<< >>)).items
    IN  IF 0 <= idx /\ idx < Len(items) /\ items[idx + 1].t = "obj"
        THEN EntryDetections(items[idx + 1])
        ELSE ScanDetections(items, idx)

\* The lookup of get_frame_detections: direct indexing when results[frame_idx]
\* carries that frame number, the scan otherwise.
LookupDetections(data, idx) ==
    LET items == ObjGet(data, "results", JArr(<< >>)).items
    IN  IF 0 <= idx /\ idx < Len(items)
        THEN IF DirectMatches(items[idx + 1], idx)
             THEN EntryDetections(items[idx + 1])
             ELSE ScanDetections(items, idx)
        ELSE ScanDetections(items, idx)

\* A confidence floor: None, or a number in hundredths.
Floor(n) == [k |-> "floor", n |-> n]

\* The floor itself is excluded.
ConfidencePassesStrict(det, m) == ObjGet(det, "confidence", JNum(0)).n > m.n

\* The comparison is turned around: the floor acts as a ceiling.
ConfidencePassesBelow(det, m) == ObjGet(det, "confidence", JNum(0)).n <= m.n

\* "det.get("confidence", 0.0) >= min_confidence"
ConfidencePasses(det, m) == ObjGet(det, "confidence", JNum(0)).n >= m.n

\* The detections are dicts whose confidence, when present, is a number.
get_frame_detections(data, idx, m) ==
    LET detections == LookupDetections(data, idx)
    IN  IF m # None /\ detections # << >>
        THEN SelectSeq(detections, LAMBDA det : ConfidencePasses(det, m))
        ELSE detections

-----------------------------------------------------------------------------
(* Detection queries (specification SpecQuery) *)

\* Largest number of entries of the results array.
MaxResults == 3

\* Largest frame number an entry carries.
MaxFrameNo == 1

DetLists ==
    { << Detection("person", JNum(90)) >>,
      << Detection("car", JNum(50)), Detection("person", JNum(90)),
         JObj(<< "class" >>, << JStr("bag") >>) >> }

\* Entries of the results array: any frame number with any detections, an
\* entry without frame field, an entry without detections, a non-object.
EntryChoices ==
    { DetEntry(JNum(f), d) : f \in 0..MaxFrameNo, d \in DetLists }
      \cup { JObj(<< "detections" >>, << JArr(<< Detection("person", JNum(90)) >>) >>),
             JObj(<< "frame" >>, << JNum(0) >>),
             JNum(5) }

FloorChoices == { None, Floor(50), Floor(95) }

FrameChoices == (0 - 1)..(MaxFrameNo + 1)

QueryStart ==
    /\ det_data \in { JObj(<< "results" >>, << JArr(r) >>) : r \in SeqsUpTo(EntryChoices, MaxResults) }
    /\ query = None
    /\ prev_query = None

InitQuery == ExportIdle /\ ParseIdle /\ QueryStart /\ MemIdle /\ UiIdle

\* The first call: get_frame_detections(det_data, idx, m)
Lookup ==
    /\ query = None
    /\ \E idx \in FrameChoices, m \in FloorChoices :
         query' = [idx |-> idx, min |-> m, result |-> get_frame_detections(det_data, idx, m)]
    /\ prev_query' = None
    /\ UNCHANGED <<det_data, exportVars, parseVars, memVars, uiVars>>

\* The same frame is looked up again with another confidence floor.
Requery ==
    /\ query # None
    /\ prev_query = None
    /\ \E m \in FloorChoices :
         query' = [idx |-> query.idx, min |-> m,
                   result |-> get_frame_detections(det_data, query.idx, m)]
    /\ prev_query' = query
    /\ UNCHANGED <<det_data, exportVars, parseVars, memVars, uiVars>>

NextQuery ==
    \/ Lookup
    \/ Requery

SpecQuery == InitQuery /\ [][NextQuery]_vars

-----------------------------------------------------------------------------
(* compute_avg_detections (specification SpecAvg) *)

\* A float kept as the fraction num / den.
Fraction(num, den) == [num |-> num, den |-> den]

\* 0.0
Zero == Fraction(0, 1)

RECURSIVE AvgFold(_, _, _)
\* total and count after the first k entries of results. An entry counts when
\* it is a dict whose "detections" is a list (an absent key gives []).
AvgFold(items, m, k) ==
    IF k = 0 THEN [total |-> 0, count |-> 0]
    ELSE LET prev == AvgFold(items, m, k - 1)
             item == items[k]
             dets == IF item.t = "obj" THEN ObjGet(item, "detections", JArr(<< >>)) ELSE JNull
             kept == IF m # None
                     THEN SelectSeq(dets.items, LAMBDA d : ConfidencePasses(d, m))
                     ELSE dets.items
         IN  IF item.t = "obj" /\ dets.t = "arr"
             THEN [total |-> prev.total + Len(kept), count |-> prev.count + 1]
             ELSE prev

\* The total is divided by len(results), whatever the entries are.
compute_avg_detections_per_entry(data, m) ==
    LET results == ObjGet(data, "results", JArr(<< >>)).items
        acc == AvgFold(results, m, Len(results))
    IN  IF results = << >> THEN Zero
        ELSE Fraction(acc.total, Len(results))

compute_avg_detections(data, m) ==
    LET results == ObjGet(data, "results", JArr(<< >>)).items
        acc == AvgFold(results, m, Len(results))
    IN  IF results = << >> THEN Zero
        ELSE IF acc.count = 0 THEN Zero
        ELSE Fraction(acc.total, acc.count)

\* Detection lists of 0, 2 and 4 detections.
AvgDetLists ==
    { << >>,
      << Detection("person", JNum(90)), Detection("car", JNum(50)) >>,
      << Detection("person", JNum(90)), Detection("car", JNum(50)),
         Detection("person", JNum(95)), JObj(<< "class" >>, << JStr("bag") >>) >> }

\* Entries of the results array: a frame entry with any of the lists, an entry
\* without detections, an entry whose detections are no list, a non-object.
AvgEntryChoices ==
    { DetEntry(JNum(0), d) : d \in AvgDetLists }
      \cup { JObj(<< "frame" >>, << JNum(0) >>),
             JObj(<< "frame", "detections" >>, << JNum(0), JNum(3) >>),
             JNum(5) }

AvgStart ==
    /\ det_data \in { JObj(<< "results" >>, << JArr(r) >>) : r \in SeqsUpTo(AvgEntryChoices, MaxResults) }
    /\ query = None
    /\ prev_query = None

InitAvg == ExportIdle /\ ParseIdle /\ AvgStart /\ MemIdle /\ UiIdle

\* compute_avg_detections(det_data, m)
ComputeAvg ==
    /\ query = None
    /\ \E m \in FloorChoices :
         query' = [fn |-> "compute_avg_detections", min |-> m,
                   result |-> compute_avg_detections(det_data, m)]
    /\ UNCHANGED <<det_data, prev_query, exportVars, parseVars, memVars, uiVars>>

NextAvg == ComputeAvg

SpecAvg == InitAvg /\ [][NextAvg]_vars

-----------------------------------------------------------------------------
(* Objects on the heap *)

\* A new object: the heap with it, and its address.
Alloc(h, obj) == [heap |-> Append(h, obj), addr |-> Len(h) + 1]

\* The very same dict is handed on: no dict() around item.get("bbox").
dictAlias(h, a) == [heap |-> h, addr |-> a]

\* dict(d): a new dict with the items of d.
dictCopy(h, a) == Alloc(h, h[a])

-----------------------------------------------------------------------------
(* get_frame_tracks on a track set held by reference (specification SpecViews) *)

\* Largest number of calls and caller writes in one behaviour.
MaxSteps == 3

\* Number of frames of the track sets.
MaxViewFrames == 2

\* A value the caller writes that no track point carries.
Scribble == 99

ViewTrackSets == { PatternTracks(p, MaxViewFrames) : p \in TrackPatterns }

RECURSIVE StoreTracks(_, _)
\* The first k track points as load_mot_tracks builds them: each record a dict
\* holding a reference to its own bbox dict.
StoreTracks(points, k) ==
    IF k = 0 THEN [heap |-> << >>, items |-> << >>]
    ELSE LET prev == StoreTracks(points, k - 1)
             b == Alloc(prev.heap, [kind |-> "bbox", x1 |-> points[k].bbox.x1,
                                    y1 |-> points[k].bbox.y1, x2 |-> points[k].bbox.x2,
                                    y2 |-> points[k].bbox.y2])
             r == Alloc(b.heap, [kind |-> "track", frame |-> points[k].frame,
                                 id |-> points[k].id, bbox |-> b.addr,
                                 conf |-> points[k].conf])
         IN  [heap |-> r.heap, items |-> Append(prev.items, r.addr)]

\* data["tracks"]: the list of the records.
StoreTrackSet(points) ==
    LET r == StoreTracks(points, Len(points))
    IN  Alloc(r.heap, [kind |-> "tracks", items |-> r.items]).heap

RECURSIVE FrameTracksFold(_, _, _, _)
\* The loop of get_frame_tracks over the first k items: the heap with the new
\* dicts, and the list built so far.
FrameTracksFold(h, items, f, k) ==
    IF k = 0 THEN [heap |-> h, out |-> << >>]
    ELSE LET prev == FrameTracksFold(h, items, f, k - 1)
             item == prev.heap[items[k]]
         IN  IF item.frame = f
             THEN LET b == dictCopy(prev.heap, item.bbox)
                      v == Alloc(b.heap, [kind |-> "view", id |-> item.id,
                                          bbox |-> b.addr, conf |-> item.conf])
                  IN  [heap |-> v.heap, out |-> Append(prev.out, v.addr)]
             ELSE prev

\* get_frame_tracks(data, frame_idx) with data["tracks"] at address tracks:
\* the heap after the call and the address of the returned list.
get_frame_tracks_refs(h, tracks, f) ==
    LET r == FrameTracksFold(h, h[tracks].items, f, Len(h[tracks].items))
    IN  Alloc(r.heap, [kind |-> "out", items |-> r.out])

\* The address of data["tracks"].
TracksAddr == CHOOSE a \in 1..Len(heap) : heap[a].kind = "tracks"

\* What is reachable from a returned record, and from a returned list.
DeepView(h, a) ==
    [id |-> h[a].id,
     bbox |-> [x1 |-> h[h[a].bbox].x1, y1 |-> h[h[a].bbox].y1,
               x2 |-> h[h[a].bbox].x2, y2 |-> h[h[a].bbox].y2],
     conf |-> h[a].conf]

DeepList(h, a) == [i \in 1..Len(h[a].items) |-> DeepView(h, h[a].items[i])]

ViewsStart ==
    /\ \E points \in ViewTrackSets : heap = StoreTrackSet(points)
    /\ trace = << >>

InitViews == ExportIdle /\ ParseIdle /\ QueryIdle /\ ViewsStart /\ UiIdle

\* tracks = get_frame_tracks(data, f)
CallGetFrameTracks ==
    /\ Len(trace) < MaxSteps
    /\ \E f \in 0..MaxViewFrames :
         LET r == get_frame_tracks_refs(heap, TracksAddr, f)
         IN  /\ heap' = r.heap
             /\ trace' = Append(trace, [fn |-> "get_frame_tracks", frame_idx |-> f,
                                        ret |-> r.addr, value |-> DeepList(r.heap, r.addr)])
    /\ UNCHANGED <<exportVars, parseVars, queryVars, uiVars>>

\* The records of the lists returned so far.
ReturnedRecords ==
    UNION { { heap[trace[i].ret].items[k] : k \in 1..Len(heap[trace[i].ret].items) } :
            i \in { j \in 1..Len(trace) : trace[j].fn = "get_frame_tracks" } }

\* The caller writes rec["id"] = .. or rec["conf"] = .. on a returned record.
MutateRecord ==
    /\ Len(trace) < MaxSteps
    /\ \E v \in ReturnedRecords :
         /\ \/ heap' = [heap EXCEPT ![v].id = Scribble]
            \/ heap' = [heap EXCEPT ![v].conf = Scribble]
         /\ trace' = Append(trace, [fn |-> "write", target |-> v])
    /\ UNCHANGED <<exportVars, parseVars, queryVars, uiVars>>

\* The caller writes rec["bbox"]["x1"] = .. on a returned record.
MutateBbox ==
    /\ Len(trace) < MaxSteps
    /\ \E v \in ReturnedRecords :
         /\ heap' = [heap EXCEPT ![heap[v].bbox].x1 = Scribble]
         /\ trace' = Append(trace, [fn |-> "write", target |-> heap[v].bbox])
    /\ UNCHANGED <<exportVars, parseVars, queryVars, uiVars>>

NextViews ==
    \/ CallGetFrameTracks
    \/ MutateRecord
    \/ MutateBbox

SpecViews == InitViews /\ [][NextViews]_vars

-----------------------------------------------------------------------------
(* The drawing functions on rasters held by reference (specification SpecRender) *)

\* Largest number of drawing calls in one behaviour.
MaxDraws == 2

\* Largest number of points of a trail handed to draw_tracks_on_image.
MaxTrail == 3

\* A raster: the decoded frame, and what has been drawn or blended into it
\* since, in order.
Raster(px) == [kind |-> "raster", px |-> px]

\* image_bgr.copy()
rasterCopy(h, a) == Alloc(h, h[a])

\* cv2.rectangle / putText / addWeighted / polylines with out as destination,
\* and frame[:, :, c] = ...: the raster at address a is written.
Paint(h, a, ops) == [h EXCEPT ![a].px = @ \o ops]

\* What a call gives back: the heap after it and the address it returns.
Gives(h, a) == [heap |-> h, addr |-> a]

\* ---- draw_bboxes_on_image

\* int(round(bbox.get(..))) of the four corners succeeds.
CornersConvert(rec) == rec.bbox # None

RECURSIVE BboxOps(_, _)
\* What the loop draws for the first k detections: rectangle, label patch and
\* text for each detection whose corners convert.
BboxOps(detections, k) ==
    IF k = 0 THEN << >>
    ELSE BboxOps(detections, k - 1) \o
         (IF CornersConvert(detections[k])
          THEN << [op |-> "rectangle", id |-> k], [op |-> "label", id |-> k] >>
          ELSE << >>)

draw_bboxes_on_image(h, image_bgr, detections, cv2_ok) ==
    IF ~cv2_ok THEN Gives(h, image_bgr)
    ELSE LET c == rasterCopy(h, image_bgr)
         IN  Gives(Paint(c.heap, c.addr, BboxOps(detections, Len(detections))), c.addr)

\* ---- draw_tracks_on_image

RECURSIVE TrackOps(_, _, _)
\* Box, ID label and, for an identity in frame_shoes, shoe label of the first
\* k tracks.
TrackOps(tracks, frame_shoes, k) ==
    IF k = 0 THEN << >>
    ELSE TrackOps(tracks, frame_shoes, k - 1) \o
         (IF CornersConvert(tracks[k])
          THEN << [op |-> "rectangle", id |-> tracks[k].id],
                  [op |-> "label", id |-> tracks[k].id] >>
               \o (IF tracks[k].id \in DOMAIN frame_shoes
                   THEN << [op |-> "shoe", id |-> tracks[k].id] >> ELSE << >>)
          ELSE << >>)

RECURSIVE ChaikinLen(_, _)
\* len(chaikin(points, iterations)) for n points: every pass replaces each of
\* the n - 1 segments by two points and keeps both ends.
ChaikinLen(n, iterations) ==
    IF n < 3 \/ iterations <= 0 THEN n
    ELSE ChaikinLen(2 * (n - 1) + 2, iterations - 1)

\* A trail is drawn from its first point on.
TrailDrawnFromOne(pts) == Len(pts) >= 1

\* "if len(pts) < 2: continue"
TrailDrawn(pts) == ~(Len(pts) < 2)

RECURSIVE TrailOps(_, _, _)
\* The polylines of the first k tracks: one per track whose identity is in
\* track_history with a trail that is drawn, smoothed by two Chaikin passes.
TrailOps(tracks, track_hist, k) ==
    IF k = 0 THEN << >>
    ELSE TrailOps(tracks, track_hist, k - 1) \o
         (IF tracks[k].id \in DOMAIN track_hist /\ TrailDrawn(track_hist[tracks[k].id])
          THEN << [op |-> "polylines", id |-> tracks[k].id,
                   pts |-> track_hist[tracks[k].id],
                   n |-> ChaikinLen(Len(track_hist[tracks[k].id]), 2)] >>
          ELSE << >>)

draw_tracks_on_image(h, image_bgr, tracks, track_hist, frame_shoes, cv2_ok) ==
    IF ~cv2_ok THEN Gives(h, image_bgr)
    ELSE LET c == rasterCopy(h, image_bgr)
             boxes == TrackOps(tracks, frame_shoes, Len(tracks))
             trails == IF track_hist.given
                       THEN TrailOps(tracks, track_hist.map, Len(tracks)) ELSE << >>
         IN  Gives(Paint(c.heap, c.addr, boxes \o trails), c.addr)

\* ---- draw_shoes_summary_on_image

draw_shoes_summary_on_image(h, image_bgr, counts, cv2_ok) ==
    IF ~cv2_ok THEN Gives(h, image_bgr)
    ELSE LET c == rasterCopy(h, image_bgr)
         IN  IF DOMAIN counts = {} THEN Gives(c.heap, c.addr)
             ELSE Gives(Paint(c.heap, c.addr, << [op |-> "legend", id |-> 0] >>), c.addr)

\* ---- apply_mask_to_frame

\* A mask image: its ndim, its number of channels (0 for a 2-D array), and
\* whether its alpha (for a 3-channel mask: any pixel) is non-zero somewhere.
Mask(ndim, channels, covers) == [ndim |-> ndim, channels |-> channels, covers |-> covers]

MaskSupported(mask) ==
    \/ mask.ndim = 2
    \/ mask.ndim = 3 /\ mask.channels \in {1, 3, 4}

\* cvtColor(BGR2BGRA) sets alpha to 255 everywhere; otherwise alpha is the
\* mask's own.
MaskBlends(mask) == (mask.ndim = 3 /\ mask.channels = 3) \/ mask.covers

apply_mask_to_frame(h, frame, mask) ==
    IF mask = None THEN Gives(h, frame)
    ELSE IF ~MaskSupported(mask) THEN Gives(h, frame)
    \* frame[:, :, c] = frame * (1 - a) + mask * a, for c in 0..2
    ELSE IF MaskBlends(mask) THEN Gives(Paint(h, frame, << [op |-> "tint", id |-> 0] >>), frame)
    ELSE Gives(h, frame)

\* ---- the calls

\* Tracks of a frame as get_frame_tracks returns them.
SceneTrack(id) ==
    [id |-> id, bbox |-> [x1 |-> id, y1 |-> 0, x2 |-> id + 2, y2 |-> 5], conf |-> None]

SceneTracks == { << >>, << SceneTrack(1) >>, << SceneTrack(1), SceneTrack(2) >> }

\* A trail of n centroids.
Trail(n) == [i \in 1..n |-> << i, 5 >>]

\* The track_history argument: None, or a dict identity -> trail.
NoHistory == [given |-> FALSE, map |-> EmptyMap]
History(m) == [given |-> TRUE, map |-> m]

\* track_history: None, or trails for some identities; identity 1 with any
\* number of points up to MaxTrail, identity 2 with one point or MaxTrail.
SceneHistories ==
    { NoHistory }
      \cup { History([id \in S |-> Trail(IF id = 1 THEN a ELSE b)]) :
                 S \in SUBSET {1, 2}, a \in 0..MaxTrail, b \in {1, MaxTrail} }

\* detections of a frame: none, one, one and an entry without usable bbox
SceneDetections ==
    { << >>,
      << [class |-> "person", bbox |-> [x1 |-> 1, y1 |-> 0, x2 |-> 3, y2 |-> 5]] >>,
      << [class |-> "person", bbox |-> [x1 |-> 1, y1 |-> 0, x2 |-> 3, y2 |-> 5]],
         [class |-> "car", bbox |-> None] >> }

SceneShoes == { EmptyMap, [id \in {1} |-> [class |-> "Sneakers", confidence |-> 65]] }

SceneCounts == { EmptyMap, [c \in {"Sneakers"} |-> 1] }

SceneMasks ==
    { None, Mask(2, 0, TRUE), Mask(2, 0, FALSE), Mask(3, 3, TRUE), Mask(3, 5, TRUE) }

\* The decoded frame at address 1, the frame's tracks at 2, the trails at 3.
RenderStart ==
    /\ \E tracks \in SceneTracks, hist \in SceneHistories :
         heap = << Raster(<< >>), [kind |-> "list", items |-> tracks],
                   [kind |-> "history", arg |-> hist] >>
    /\ trace = << >>

InitRender == ExportIdle /\ ParseIdle /\ QueryIdle /\ RenderStart /\ UiIdle

\* img: the frame, or what the last call returned ("img = draw_..(img, ..)").
CurrentImage == IF trace = << >> THEN 1 ELSE trace[Len(trace)].ret

\* The record of a call: the raster given, its pixels before and after, the
\* raster returned and its pixels.
DrawCall(name, r) ==
    [fn |-> name, arg |-> CurrentImage, before |-> heap[CurrentImage].px,
     after |-> r.heap[CurrentImage].px, ret |-> r.addr, out |-> r.heap[r.addr].px]

CallDrawBboxes ==
    /\ Len(trace) < MaxDraws
    /\ \E dets \in SceneDetections, cv2_ok \in BOOLEAN :
         LET r == draw_bboxes_on_image(heap, CurrentImage, dets, cv2_ok)
         IN  /\ heap' = r.heap
             /\ trace' = Append(trace, DrawCall("draw_bboxes_on_image", r))
    /\ UNCHANGED <<exportVars, parseVars, queryVars, uiVars>>

CallDrawTracks ==
    /\ Len(trace) < MaxDraws
    /\ \E shoes \in SceneShoes, cv2_ok \in BOOLEAN :
         LET r == draw_tracks_on_image(heap, CurrentImage, heap[2].items, heap[3].arg,
                                       shoes, cv2_ok)
         IN  /\ heap' = r.heap
             /\ trace' = Append(trace, DrawCall("draw_tracks_on_image", r))
    /\ UNCHANGED <<exportVars, parseVars, queryVars, uiVars>>

CallDrawShoesSummary ==
    /\ Len(trace) < MaxDraws
    /\ \E counts \in SceneCounts, cv2_ok \in BOOLEAN :
         LET r == draw_shoes_summary_on_image(heap, CurrentImage, counts, cv2_ok)
         IN  /\ heap' = r.heap
             /\ trace' = Append(trace, DrawCall("draw_shoes_summary_on_image", r))
    /\ UNCHANGED <<exportVars, parseVars, queryVars, uiVars>>

CallApplyMask ==
    /\ Len(trace) < MaxDraws
    /\ \E mask \in SceneMasks :
         LET r == apply_mask_to_frame(heap, CurrentImage, mask)
         IN  /\ heap' = r.heap
             /\ trace' = Append(trace, DrawCall("apply_mask_to_frame", r))
    /\ UNCHANGED <<exportVars, parseVars, queryVars, uiVars>>

NextRender ==
    \/ CallDrawBboxes
    \/ CallDrawTracks
    \/ CallDrawShoesSummary
    \/ CallApplyMask

SpecRender == InitRender /\ [][NextRender]_vars

-----------------------------------------------------------------------------
(* id_color and pleasant_palette (specification SpecColor) *)

\* Number of colour lookups in one run.
MaxColorCalls == 3

\* pleasant_palette(): ten BGR colours.
pleasant_palette ==
    << <<125, 117, 108>>, <<219, 152, 52>>, <<113, 204, 46>>, <<15, 196, 241>>,
       <<60, 76, 231>>, <<182, 89, 155>>, <<156, 188, 26>>, <<18, 156, 243>>,
       <<166, 165, 149>>, <<94, 73, 52>> >>

\* "return (80, 200, 120)  # fallback"
FallbackColor == <<80, 200, 120>>

\* The palette argument: left out (None), or a list of colours.
NoPalette == [given |-> FALSE, colors |-> << >>]

\* abs() of an integer.
abs(n) == IF n < 0 THEN 0 - n ELSE n

\* A colour that depends on how many lookups were made before this one.
id_color_by_call_order(track_id, palette) ==
    pleasant_palette[(Len(trace) % Len(pleasant_palette)) + 1]

\* id_color: "pal = palette or pleasant_palette()" (None and the empty list are
\* both falsy); "idx = abs(int(track_id)) % len(pal)".
id_color(track_id, palette) ==
    LET pal == IF palette.given /\ palette.colors # << >>
               THEN palette.colors
               ELSE pleasant_palette
    IN  IF pal = << >>
        THEN FallbackColor
        ELSE pal[(abs(track_id) % Len(pal)) + 1]

\* draw_tracks_on_image: 'tid = tr.get("id", None)';
\* "color = id_color(int(tid) if tid is not None else 0)".
TrackColor(tr) ==
    id_color(IF "id" \in DOMAIN tr THEN tr.id ELSE 0, NoPalette)

\* The track records whose colour is looked up: ids below, at and above the
\* palette size, negative ids, and a record without an id.
ColorTracks ==
    { [id |-> n] : n \in {0 - 13, 0 - 3, 0, 3, 7, 10, 13} } \cup { [bbox |-> "only"] }

ColorStart ==
    /\ heap = << >>
    /\ trace = << >>

InitColor == ExportIdle /\ ParseIdle /\ QueryIdle /\ ColorStart /\ UiIdle

\* One lookup made by draw_tracks_on_image on the named path.
ColorCall(path, tr) ==
    /\ Len(trace) < MaxColorCalls
    /\ trace' = Append(trace, [fn |-> "id_color", path |-> path, tr |-> tr,
                               ret |-> TrackColor(tr)])
    /\ UNCHANGED <<heap, exportVars, parseVars, queryVars, uiVars>>

\* create_video_with_tracks draws a frame's track (track_utils.py 363).
ExportDrawsTrack == \E tr \in ColorTracks : ColorCall("export", tr)

\* The page draws the displayed frame's track (app.py 682).
PageDrawsTrack == \E tr \in ColorTracks : ColorCall("interactive", tr)

NextColor ==
    \/ ExportDrawsTrack
    \/ PageDrawsTrack

SpecColor == InitColor /\ [][NextColor]_vars

-----------------------------------------------------------------------------
(* get_video_info and get_video_info_safe (specification SpecInfo) *)

\* _default()
DefaultInfo ==
    [fps |-> 0, frame_count |-> 0, duration |-> 0, width |-> 0, height |-> 0,
     bitrate |-> 0, codec |-> "N/A", container |-> "N/A"]

\* What cv2 does with the file: "import cv2" raises, the capture does not open,
\* a property read raises, or the capture opens and reports its properties (0
\* for a property the backend does not know; a zero FOURCC gives no codec).
Cv2Outcomes ==
    { [kind |-> "missing"], [kind |-> "unopened"], [kind |-> "raises"] } \cup
    { [kind |-> "opened", fps |-> r, frame_count |-> n, width |-> w, height |-> h,
       fourcc |-> c] :
        r \in {0, 25}, n \in {0, 50}, w \in {0, 640}, h \in {0, 480},
        c \in {"avc1", "zero"} }

\* What the ffprobe run gives: the tool is absent, it fails or prints no JSON
\* object, or it prints a document. bad names the stream field whose value
\* makes its conversion raise ("width": int('abc'); "codec_name": a number has
\* no upper()).
FfprobeOutcomes ==
    { [kind |-> "absent"], [kind |-> "fails"] } \cup
    { [kind |-> "data", streams |-> FALSE, duration |-> d, bit_rate |-> b] :
        d \in {0, 3}, b \in {0, 9000} } \cup
    { [kind |-> "data", streams |-> TRUE, width |-> w, height |-> w,
       codec_name |-> c, fps |-> r, nb_read_frames |-> n, bad |-> x,
       duration |-> d, bit_rate |-> b] :
        w \in {0, 320}, c \in {"", "h264"}, r \in {0, 30}, n \in {0, 60},
        x \in {"none", "width", "codec_name"}, d \in {0, 3}, b \in {0, 9000} }

\* The file and the tools around one metadata lookup.
VideoEnvs ==
    { [exists |-> FALSE] } \cup
    { [exists |-> TRUE, ext |-> x, cv2 |-> c, ffprobe |-> f, size |-> s] :
        x \in {"MP4", ""}, c \in Cv2Outcomes, f \in FfprobeOutcomes,
        s \in {1000, 0 - 1} }

\* "os.path.splitext(video_path)[1][1:].upper() or 'N/A'"
ContainerOf(env) == IF env.ext = "" THEN "N/A" ELSE env.ext

\* Provider 1, lines 30-66: every statement sits in try/except Exception: pass,
\* and info.update is its last statement.
OpenCvProvider(info, env) ==
    LET c == env.cv2
    IN  IF c.kind # "opened" THEN info
        ELSE [info EXCEPT
                !.fps = c.fps,
                !.frame_count = c.frame_count,
                !.duration = IF c.fps > 0 /\ c.frame_count > 0
                             THEN c.frame_count \div c.fps ELSE 0,
                !.width = c.width,
                !.height = c.height,
                !.codec = IF c.fourcc = "zero" THEN "N/A" ELSE c.fourcc,
                !.container = ContainerOf(env)]

\* Lines 69-71.
needs_ffprobe(info) ==
    \/ info.width = 0
    \/ info.height = 0
    \/ info.fps = 0
    \/ info.duration = 0
    \/ info.codec = "N/A"

\* Lines 116-128: the stream fields, each written only over its default.
StreamFields(info, f) ==
    LET a == [info EXCEPT !.width = IF @ = 0 THEN f.width ELSE @,
                          !.height = IF @ = 0 THEN f.height ELSE @]
        b == IF a.codec = "N/A" /\ f.codec_name # ""
             THEN [a EXCEPT !.codec = IF f.codec_name = "h264" THEN "H264" ELSE @]
             ELSE a
        c == IF b.fps = 0 /\ f.fps > 0 THEN [b EXCEPT !.fps = f.fps] ELSE b
    IN  IF c.frame_count = 0 /\ f.nb_read_frames > 0
        THEN [c EXCEPT !.frame_count = f.nb_read_frames]
        ELSE c

\* Lines 131-155: duration, estimated frame count, container, bit rate.
FormatFields(info, f, env) ==
    LET a == IF info.duration = 0 /\ f.duration > 0
             THEN [info EXCEPT !.duration = f.duration] ELSE info
        b == IF a.frame_count = 0 /\ a.fps > 0 /\ f.duration > 0
             THEN [a EXCEPT !.frame_count = a.fps * f.duration] ELSE a
        c == IF b.container = "N/A" THEN [b EXCEPT !.container = ContainerOf(env)] ELSE b
    IN  IF c.bitrate = 0 /\ f.bit_rate > 0 THEN [c EXCEPT !.bitrate = f.bit_rate] ELSE c

\* The ffprobe block without its try/except: a missing tool raises.
FfprobeProviderUnguarded(info, env) ==
    IF env.ffprobe.kind = "absent"
    THEN [info |-> info, raised |-> TRUE]
    ELSE [info |-> info, raised |-> FALSE]

\* Provider 2, lines 72-157, inside try/except Exception: pass. An exception
\* ends the block and keeps what was written before it.
FfprobeProvider(info, env) ==
    LET f == env.ffprobe
        after ==
            IF f.kind # "data" THEN info
            ELSE IF ~f.streams THEN FormatFields(info, f, env)
            ELSE IF f.bad = "width" THEN info
            ELSE IF f.bad = "codec_name"
                 THEN [info EXCEPT !.width = IF @ = 0 THEN f.width ELSE @,
                                   !.height = IF @ = 0 THEN f.height ELSE @]
            ELSE FormatFields(StreamFields(info, f), f, env)
    IN  [info |-> after, raised |-> FALSE]

\* Provider 3, lines 160-165: "info['bitrate'] = int(file_size_bits /
\* max(info['duration'], 1))" when the duration is known; os.path.getsize may
\* raise (size -1), inside try/except.
BitrateEstimate(info, env) ==
    IF info.duration > 0 /\ env.size >= 0
    THEN [info EXCEPT !.bitrate = (env.size * 8) \div Max(info.duration, 1)]
    ELSE info

\* get_video_info: the record after each provider, and what the call gives.
get_video_info(env) ==
    IF ~env.exists
    THEN [stages |-> << DefaultInfo >>, outcome |-> Returned(DefaultInfo)]
    ELSE LET s1 == OpenCvProvider(DefaultInfo, env)
             p2 == IF needs_ffprobe(s1) THEN FfprobeProvider(s1, env)
                   ELSE [info |-> s1, raised |-> FALSE]
             s3 == BitrateEstimate(p2.info, env)
         IN  IF p2.raised
             THEN [stages |-> << DefaultInfo, s1 >>, outcome |-> Raised("FileNotFoundError")]
             ELSE [stages |-> << DefaultInfo, s1, p2.info, s3 >>, outcome |-> Returned(s3)]

\* "return {}"
EmptyDict == [key \in {} |-> 0]

\* get_video_info_safe (app.py 45-56): no call is made when cv2 was found
\* unusable at start-up; an exception of the call gives {}.
get_video_info_safe(env, cv2_ok) ==
    IF ~cv2_ok
    THEN [called |-> FALSE, ret |-> EmptyDict]
    ELSE LET r == get_video_info(env)
         IN  [called |-> TRUE, received |-> r.outcome,
              ret |-> IF r.outcome.raised THEN EmptyDict ELSE r.outcome.value]

\* _CV2_OK: whether "import cv2" worked when the page started.
Cv2Usable(env) == ~env.exists \/ env.cv2.kind # "missing"

InfoStart ==
    /\ heap = << >>
    /\ trace = << >>

InitInfo == ExportIdle /\ ParseIdle /\ QueryIdle /\ InfoStart /\ UiIdle

\* A direct call of get_video_info.
CallGetVideoInfo ==
    /\ trace = << >>
    /\ \E env \in VideoEnvs :
         LET r == get_video_info(env)
         IN  trace' = << [fn |-> "get_video_info", env |-> env, stages |-> r.stages,
                          outcome |-> r.outcome] >>
    /\ UNCHANGED <<heap, exportVars, parseVars, queryVars, uiVars>>

\* The page asks for the metadata through the wrapper.
CallGetVideoInfoSafe ==
    /\ trace = << >>
    /\ \E env \in { v \in VideoEnvs : v.exists } :
         LET r == get_video_info_safe(env, Cv2Usable(env))
         IN  trace' = << [fn |-> "get_video_info_safe", env |-> env, call |-> r] >>
    /\ UNCHANGED <<heap, exportVars, parseVars, queryVars, uiVars>>

NextInfo ==
    \/ CallGetVideoInfo
    \/ CallGetVideoInfoSafe

SpecInfo == InitInfo /\ [][NextInfo]_vars

-----------------------------------------------------------------------------
(* The shoe-label patch of draw_tracks_on_image (specification SpecLabel) *)

\* Left edges of the track box, text widths cv2.getTextSize reports, and frame
\* widths (out.shape[1]), in pixels.
BoxLefts == (0 - 3)..12
TextWidths == 1..8
FrameWidths == {6, 10}

\* Lines 206-212: "shoe_bg_x1 = max(0, x1)", "shoe_bg_x2 = shoe_bg_x1 +
\* shoe_width + 4", and the shift to the left when the patch passes the right
\* edge.
ShoeLabelPatch(x1, shoe_width, frame_width) ==
    LET shoe_bg_x1 == Max(0, x1)
        shoe_bg_x2 == shoe_bg_x1 + shoe_width + 4
    IN  IF shoe_bg_x2 > frame_width
        THEN [shoe_bg_x1 |-> frame_width - shoe_width - 4, shoe_bg_x2 |-> frame_width]
        ELSE [shoe_bg_x1 |-> shoe_bg_x1, shoe_bg_x2 |-> shoe_bg_x2]

LabelStart ==
    /\ heap = << >>
    /\ trace = << >>

InitLabel == ExportIdle /\ ParseIdle /\ QueryIdle /\ LabelStart /\ UiIdle

\* draw_tracks_on_image reaches a track that has a shoe label.
DrawShoeLabel ==
    /\ trace = << >>
    /\ \E x1 \in BoxLefts, w \in TextWidths, fw \in FrameWidths :
         trace' = << [fn |-> "shoe_label", x1 |-> x1, shoe_width |-> w,
                      frame_width |-> fw, patch |-> ShoeLabelPatch(x1, w, fw)] >>
    /\ UNCHANGED <<heap, exportVars, parseVars, queryVars, uiVars>>

NextLabel == DrawShoeLabel

SpecLabel == InitLabel /\ [][NextLabel]_vars

-----------------------------------------------------------------------------
(* The dashboard page, app.py (specification SpecUI) *)

\* The videos of VIDEO_FILES the page is tried with, and the frame count
\* get_video_info_safe reports for each (0: the file is missing or unreadable).
VideoNames == {"source", "clip", "absent"}
VideoFrames == [source |-> MaxFrames, clip |-> 3, absent |-> 0]

\* video_info.total_frames of the detection JSON, the fallback frame count.
DetTotalFrames == 5

\* The tracker checkboxes.
TrackerKeys == {"track_id", "bot_sort_reid"}

\* What _load_tracks returns for the track file of each tracker.
LoadedChoices ==
    { [track_id |-> PatternTracks("walk", MaxFrames),
       bot_sort_reid |-> PatternTracks("pair", MaxFrames)],
      [track_id |-> PatternTracks("negative", MaxFrames),
       bot_sort_reid |-> PatternTracks("walk", MaxFrames)],
      [track_id |-> PatternTracks("pair", MaxFrames),
       bot_sort_reid |-> PatternTracks("empty", MaxFrames)] }

\* Lines 122-146: the keys a new session gets.
NewSession ==
    [track_id |-> FALSE, bot_sort_reid |-> FALSE, video_mode |-> FALSE,
     current_frame |-> 0, selected_video |-> "source"]

\* handle_video_mode_change (lines 58-63).
handle_video_mode_change(s) ==
    [s EXCEPT !.track_id = FALSE, !.bot_sort_reid = FALSE]

\* select_tracker without its last statement.
select_tracker_keeps_video(s, tracker_name) ==
    IF ~s[tracker_name]
    THEN [s EXCEPT !.track_id = FALSE, !.bot_sort_reid = FALSE]
    ELSE [s EXCEPT !.track_id = (tracker_name = "track_id"),
                   !.bot_sort_reid = (tracker_name = "bot_sort_reid")]

\* select_tracker (lines 65-76).
select_tracker(s, tracker_name) ==
    IF ~s[tracker_name]
    THEN [s EXCEPT !.track_id = FALSE, !.bot_sort_reid = FALSE]
    ELSE [s EXCEPT !.track_id = (tracker_name = "track_id"),
                   !.bot_sort_reid = (tracker_name = "bot_sort_reid"),
                   !.video_mode = FALSE]

\* handle_other_checkboxes_change (lines 78-82).
handle_other_checkboxes_change(s) ==
    IF s.video_mode THEN [s EXCEPT !.video_mode = FALSE] ELSE s

\* Lines 189-196: the tracker whose tracks are shown.
ActiveTracker(s) ==
    IF s.track_id THEN "track_id"
    ELSE IF s.bot_sort_reid THEN "bot_sort_reid"
    ELSE "none"

\* Lines 321-333 and 386-391: frames of the selected video, or the count of
\* the detection JSON when the video gives none.
PageFrames(s) ==
    IF VideoFrames[s.selected_video] = 0
    THEN DetTotalFrames
    ELSE VideoFrames[s.selected_video]

\* "max_frame_idx = max(0, (frames - 1) if frames else 0)"
max_frame_idx(frames) == Max(0, IF frames # 0 THEN frames - 1 ELSE 0)

\* "history_len = 25"
history_len == 25

\* "start_f = max(0, frame_idx - history_len + 1)"
start_f(idx) == Max(0, idx - history_len + 1)

\* A trail point at the top edge of the box.
ViewCentroidTop(bbox) == << IntHalf(bbox.x1 + bbox.x2), bbox.y1 >>

\* "cx = int((bbox.get("x1", 0) + bbox.get("x2", 0)) / 2)"; "cy = int(bbox.get("y2", 0))"
ViewCentroid(bbox) == << IntHalf(bbox.x1 + bbox.x2), bbox.y2 >>

\* "track_history[tid] = deque(maxlen=history_len)" and append.
ViewPut(h, tid, p) ==
    LET q == IF tid \in DOMAIN h THEN h[tid] ELSE << >>
    IN  (tid :> (IF Len(q) >= history_len THEN Append(Tail(q), p) ELSE Append(q, p))) @@ h

\* A history that is kept between script runs.
ViewHistoryCarried == IF view = None THEN EmptyMap ELSE view.history

\* "track_history = {}" (line 653).
ViewHistoryStart == EmptyMap

RECURSIVE ViewFrame(_, _, _)
\* "for tr in tr_f": the appends of the first k tracks of one frame.
ViewFrame(h, tr_f, k) ==
    IF k = 0 THEN h
    ELSE ViewPut(ViewFrame(h, tr_f, k - 1), tr_f[k].id, ViewCentroid(tr_f[k].bbox))

RECURSIVE ViewFrames(_, _, _, _)
\* "for f in range(lo, hi + 1)" run on history h. The range is walked in
\* two halves, lo..mid and then mid+1..hi, which visits the same frames in
\* the same order.
ViewFrames(h, data, lo, hi) ==
    IF lo > hi THEN h
    ELSE IF lo = hi
    THEN LET tr_f == get_frame_tracks(data, lo) IN ViewFrame(h, tr_f, Len(tr_f))
    ELSE LET mid == (lo + hi) \div 2
         IN  CHOOSE after \in { ViewFrames(half, data, mid + 1, hi) :
                                   half \in { ViewFrames(h, data, lo, mid) } } : TRUE

\* Lines 650-669: the trail history built for the displayed frame.
ViewHistory(data, idx) == ViewFrames(ViewHistoryStart, data, start_f(idx), idx)

\* What a script run shows. event names the widget that caused the run.
VideoView(event) ==
    [mode |-> "video", event |-> event, frame |-> 0, tracker |-> "none",
     history |-> EmptyMap]

\* st.slider was given a value above max_value and raised: the run ends there.
ErrorView(event) ==
    [mode |-> "error", event |-> event, frame |-> 0, tracker |-> "none",
     history |-> EmptyMap]

\* Lines 604-688: the frame-by-frame view of frame s.current_frame.
FrameView(s, event) ==
    LET tracker == IF VideoFrames[s.selected_video] = 0 THEN "none" ELSE ActiveTracker(s)
    IN  [mode |-> "frame", event |-> event, frame |-> s.current_frame,
         tracker |-> tracker,
         history |-> IF tracker = "none" THEN EmptyMap
                     ELSE ViewHistory(loaded[tracker], s.current_frame)]

\* The slider was not moved in this run.
NoMove == 0 - 1

\* One run of the script from top to bottom on session s: in video mode the
\* player is shown; otherwise "current_frame = st.slider(..., max_value =
\* max_frame_idx, value = current_frame)" and the frame view. A value above
\* max_value is outside what the page controls: st.slider either raises or
\* widens its range and returns the value.
ScriptRuns(s, event, moved) ==
    IF s.video_mode
    THEN { [session |-> s, view |-> VideoView(event)] }
    ELSE LET v  == IF moved = NoMove THEN s.current_frame ELSE moved
             s2 == [s EXCEPT !.current_frame = v]
             shown == [session |-> s2, view |-> FrameView(s2, event)]
         IN  IF s.current_frame <= max_frame_idx(PageFrames(s))
             THEN { shown }
             ELSE { shown, [session |-> s, view |-> ErrorView(event)] }

UiStart ==
    /\ session = NewSession
    /\ loaded \in LoadedChoices
    /\ view = [mode |-> "frame", event |-> "open", frame |-> 0, tracker |-> "none",
               history |-> EmptyMap]

InitUI == ExportIdle /\ ParseIdle /\ QueryIdle /\ MemIdle /\ UiStart

\* The session and view after the callback left session s and the script ran.
Rerun(s, event, moved) ==
    /\ \E r \in ScriptRuns(s, event, moved) :
         /\ session' = r.session
         /\ view' = r.view
    /\ UNCHANGED <<loaded, exportVars, parseVars, queryVars, memVars>>

\* A tracker checkbox is clicked: the widget value flips, select_tracker runs,
\* then the script.
ToggleTracker ==
    \E name \in TrackerKeys :
        Rerun(select_tracker([session EXCEPT ![name] = ~@], name), name, NoMove)

\* The video-mode checkbox is clicked.
ToggleVideoMode ==
    Rerun(handle_video_mode_change([session EXCEPT !.video_mode = ~@]), "video_mode", NoMove)

\* One of the checkboxes yolo_enabled, shoe1, floor, window is clicked.
ToggleOther ==
    Rerun(handle_other_checkboxes_change(session), "other", NoMove)

\* The frame slider is moved to v.
MoveSlider ==
    /\ view.mode = "frame"
    /\ \E v \in 0..max_frame_idx(PageFrames(session)) :
         Rerun(session, "slider", v)

\* A navigation button is pressed: the session key is set, then st.rerun().
Navigate(event, target) ==
    /\ view.mode = "frame"
    /\ Rerun([session EXCEPT !.current_frame = target], event, NoMove)

\* Lines 709-711.
NavStart == Navigate("start", 0)

\* Lines 714-716.
NavBack10 == Navigate("-10", Max(0, session.current_frame - 10))

\* Lines 719-721.
NavBack1 == Navigate("-1", Max(0, session.current_frame - 1))

\* min() of two integers.
Min(a, b) == IF a <= b THEN a ELSE b

\* Lines 724-727.
NavForward1 ==
    Navigate("+1", Min(max_frame_idx(PageFrames(session)), session.current_frame + 1))

\* Lines 730-733.
NavForward10 ==
    Navigate("+10", Min(max_frame_idx(PageFrames(session)), session.current_frame + 10))

\* Lines 337-350: another video is picked in the selectbox of video mode.
SelectVideo ==
    /\ view.mode = "video"
    /\ \E name \in VideoNames \ {session.selected_video} :
         Rerun([session EXCEPT !.selected_video = name], "video_selector", NoMove)

NextUI ==
    \/ ToggleTracker
    \/ ToggleVideoMode
    \/ ToggleOther
    \/ MoveSlider
    \/ NavStart
    \/ NavBack10
    \/ NavBack1
    \/ NavForward1
    \/ NavForward10
    \/ SelectVideo

SpecUI == InitUI /\ [][NextUI]_vars

-----------------------------------------------------------------------------
(* read_frame, yolo_utils.py 134-187 (specification SpecRead) *)

\* Largest frame count a vid of the model reports or holds.
MaxReadFrames == 4

\* The videos read_frame is tried on. total_frames is what the container
\* reports (CAP_PROP_FRAME_COUNT, 0 when unknown); decodable is how many frames
\* cap.read() can deliver from the start, which may be fewer or more; seekable
\* tells whether a read that follows a seek to a position other than 0 succeeds.
ReadVideos ==
    { [exists |-> FALSE, opens |-> FALSE, total_frames |-> 0, decodable |-> 0,
       seekable |-> FALSE],
      [exists |-> TRUE, opens |-> FALSE, total_frames |-> 0, decodable |-> 0,
       seekable |-> FALSE] } \cup
    { [exists |-> TRUE, opens |-> TRUE, total_frames |-> t, decodable |-> d,
       seekable |-> s] :
        t \in 0..MaxReadFrames, d \in 0..MaxReadFrames, s \in BOOLEAN }

\* The frame_idx arguments.
ReadIndexes == (0 - 2)..(MaxReadFrames + 1)

\* What read_frame returns: None, or the image of one frame of the vid.
NoFrame == [kind |-> "None"]
FrameAt(i) == [kind |-> "frame", index |-> i]

\* "cap.set(cv2.CAP_PROP_POS_FRAMES, pos); ok, frame = cap.read()"
CapSetRead(vid, pos) ==
    IF (vid.seekable \/ pos = 0) /\ pos < vid.decodable
    THEN [ok |-> TRUE, frame |-> FrameAt(pos)]
    ELSE [ok |-> FALSE, frame |-> NoFrame]

RECURSIVE SequentialRead(_, _, _)
\* "while cur_idx <= target_idx: ok, frame = cap.read() ..." after cap.set(0):
\* the read at position cur_idx and what follows it.
SequentialRead(vid, target_idx, cur_idx) ==
    IF cur_idx > target_idx THEN [ok |-> FALSE, frame |-> NoFrame]
    ELSE IF ~(cur_idx < vid.decodable) THEN [ok |-> FALSE, frame |-> NoFrame]
    ELSE IF cur_idx = target_idx THEN [ok |-> TRUE, frame |-> FrameAt(cur_idx)]
    ELSE SequentialRead(vid, target_idx, cur_idx + 1)

\* "fallback_idx = max(0, min(frame_idx - 2, total_frames - 1))"
StepBackIndex(idx, total) == Max(0, Min(idx - 2, total - 1))

\* read_frame(video_path, frame_idx). cap: "none" when no decoder was created,
\* "released" after cap.release(), "open" otherwise; by: the attempt that
\* produced the result.
read_frame(cv2_ok, vid, idx_arg) ==
    IF ~cv2_ok THEN [ret |-> NoFrame, cap |-> "none", by |-> "import"]
    ELSE IF ~vid.exists THEN [ret |-> NoFrame, cap |-> "none", by |-> "missing"]
    ELSE IF ~vid.opens THEN [ret |-> NoFrame, cap |-> "released", by |-> "unopened"]
    ELSE
      LET total == vid.total_frames
          idx == IF total > 0 THEN Max(0, Min(idx_arg, total - 1))
                 ELSE Max(0, idx_arg)
          direct == CapSetRead(vid, idx)
          fallback_idx == StepBackIndex(idx, total)
          retried == ~direct.ok /\ total > 0 /\ fallback_idx # idx
          stepped == IF retried THEN CapSetRead(vid, fallback_idx) ELSE direct
          rescanned == ~stepped.ok /\ total > 0
          last == IF rescanned
                  THEN SequentialRead(vid, Max(0, Min(idx, total - 1)), 0)
                  ELSE stepped
      IN  [ret |-> IF ~last.ok THEN NoFrame ELSE last.frame,
           cap |-> "released",
           by  |-> IF rescanned THEN "sequential"
                   ELSE IF retried THEN "step-back" ELSE "direct"]

ReadStart ==
    /\ heap = << >>
    /\ trace = << >>

InitRead == ExportIdle /\ ParseIdle /\ QueryIdle /\ ReadStart /\ UiIdle

\* One call of read_frame.
CallReadFrame ==
    /\ trace = << >>
    /\ \E cv2_ok \in BOOLEAN, vid \in ReadVideos, i \in ReadIndexes :
         trace' = << [fn |-> "read_frame", cv2_ok |-> cv2_ok, video |-> vid,
                      frame_idx |-> i, out |-> read_frame(cv2_ok, vid, i)] >>
    /\ UNCHANGED <<heap, exportVars, parseVars, queryVars, uiVars>>

NextRead == CallReadFrame

SpecRead == InitRead /\ [][NextRead]_vars

-----------------------------------------------------------------------------
(* Properties of the export (specification Spec) *)

\* The last n elements of s.
LastN(s, n) == IF Len(s) <= n THEN s ELSE SubSeq(s, Len(s) - n + 1, Len(s))

\* C1: every identity's trail queue holds at most HistoryLen (25) points, and
\* it is exactly the last 25 centroids appended for that identity, in arrival
\* order; once more than 25 were appended it holds exactly 25.
C1_HistoryBounded ==
    /\ DOMAIN track_history = DOMAIN appended
    /\ \A t \in DOMAIN track_history :
         /\ Len(track_history[t]) <= HistoryLen
         /\ track_history[t] = LastN(appended[t], HistoryLen)
         /\ Len(appended[t]) > HistoryLen => Len(track_history[t]) = HistoryLen

\* An identity has received more than 25 centroids, so the oldest were evicted.
C1_Witness ==
    \E t \in DOMAIN track_history :
        /\ Len(appended[t]) > HistoryLen + 1
        /\ appended[t][1] # appended[t][2]
        /\ pc = "draw"

\* C2: with a progress callback, the invocations are (0, T), (1, T), (2, T) ...
\* with one T; invocation i comes after frame i was written; at the top of the
\* loop and after a successful export there is exactly one invocation per
\* decoded frame.
C2_ProgressOncePerFrame ==
    /\ ~has_callback => calls = << >>
    /\ has_callback =>
         /\ \A i \in 1..Len(calls) :
               /\ calls[i][1] = i - 1
               /\ calls[i][2] = calls[1][2]
               /\ calls[i][2] = total_frames
               /\ i <= Len(written) /\ written[i] = i - 1
         /\ Len(written) <= Len(calls) + 1
         /\ (pc = "read" \/ result = "True") => Len(calls) = decoded

\* A successful export of at least three frames with a callback.
C2_Witness ==
    /\ has_callback
    /\ pc = "done"
    /\ result = "True"
    /\ Len(calls) >= 3
    /\ total_frames > 0

\* C3: when the export has returned, every decoder and encoder that was
\* created has been released.
C3_AllReleased ==
    pc = "done" => (cap \in {"none", "released"} /\ out \in {"none", "released"})

\* C4: a missing or unopenable input makes the export return False with no
\* progress callback invocation.
C4_UnreadableReturnsFalse ==
    (pc = "done" /\ video \in {"missing", "unopenable"}) =>
        (result = "False" /\ calls = << >> /\ written = << >>)

\* The decoder was created but could not open the input, and the call returned.
C4_Witness ==
    /\ pc = "done"
    /\ video = "unopenable"
    /\ has_callback

\* C5 as stated: any exception raised after the decoder is opened makes the
\* export return False.
C5_AnyExceptionFails ==
    (pc = "done" /\ raised # {}) => result = "False"

\* C5 amended: an exception that reaches the outer handler makes the export
\* return False; the call ends with True or False and nothing escapes.
C5_OuterExceptionFails ==
    /\ result \in {"pending", "True", "False"}
    /\ pc = "done" => result \in {"True", "False"}
    /\ "outer" \in raised => result = "False"

\* An exception was raised in the frame loop after two frames were written.
C5_Witness ==
    /\ pc = "done"
    /\ "outer" \in raised
    /\ Len(written) >= 2

-----------------------------------------------------------------------------
(* Properties of the parsers (specification SpecParse) *)

\* A track line with at least six fields, the first six of them finite numbers.
WellFormedLine(line) ==
    /\ line.kind \in {"comma", "space"}
    /\ Len(line.f) >= 6
    /\ \A i \in 1..6 : line.f[i].k = "num"

\* The file is not of the parser's artifact type: no JSON object for the two
\* JSON parsers, no track line for the track parser.
Malformed(parser, file) ==
    /\ file.t = "file"
    /\ IF parser = "load_mot_tracks"
       THEN \A i \in 1..Len(file.lines) : ~WellFormedLine(file.lines[i])
       ELSE file.json.t # "obj"

\* The empty structure of each artifact type.
EmptyOf(parser, path) ==
    CASE parser = "load_detections" ->
           JObj(<<"video_info", "detection_info", "results">>,
                <<JObj(<< >>, << >>), JObj(<< >>, << >>), JArr(<< >>)>>)
      [] parser = "load_mot_tracks" -> [tracks |-> << >>, source |-> path]
      [] OTHER -> [labels |-> << >>, source |-> path]

\* C6: whatever the file holds, no parser call lets an exception escape, and on
\* a file that is not of its artifact type (invalid JSON, a top-level value that
\* is no object, no track line) it returns the empty structure.
C6_ParsersFailSoft ==
    \A i \in 1..Len(parse_log) :
        LET c == parse_log[i] IN
        /\ ~c.outcome.raised
        /\ Malformed(c.fn, fs[c.path]) => c.outcome.value = EmptyOf(c.fn, c.path)

\* C7: a parser called on a missing path returns its empty structure, and two
\* calls of one parser on one missing path return equal results.
C7_MissingPathEmpty ==
    \A i \in 1..Len(parse_log) :
        LET c == parse_log[i] IN
        fs[c.path] = Absent =>
            /\ c.outcome = Returned(EmptyOf(c.fn, c.path))
            /\ \A j \in 1..Len(parse_log) :
                 (parse_log[j].fn = c.fn /\ parse_log[j].path = c.path)
                     => parse_log[j].outcome = c.outcome

\* load_shoe_labels was called twice on the same missing path.
C7_Witness ==
    /\ Len(parse_log) >= 2
    /\ parse_log[1].fn = "load_shoe_labels"
    /\ parse_log[2].fn = "load_shoe_labels"
    /\ parse_log[1].path = parse_log[2].path
    /\ fs[parse_log[1].path] = Absent

-----------------------------------------------------------------------------
(* Properties of load_mot_tracks (specification SpecLines) *)

\* A well-formed track line: at least six fields, the first six finite numbers,
\* and a seventh, when there is one, that float() accepts.
TrackLine(line) ==
    /\ WellFormedLine(line)
    /\ Len(line.f) >= 7 => line.f[7].k # "bad"

\* The calls of load_mot_tracks on an existing file.
TrackCalls ==
    { i \in 1..Len(parse_log) :
        parse_log[i].fn = "load_mot_tracks" /\ fs[parse_log[i].path].t = "file" }

\* The well-formed lines of the file call i read, in file order.
GoodLines(i) == SelectSeq(fs[parse_log[i].path].lines, TrackLine)

\* The track points call i returned.
CallTracks(i) == parse_log[i].outcome.value.tracks

Abs(n) == IF n >= 0 THEN n ELSE 0 - n

\* The fields of a line are integers (even numbers of halves).
IsWhole(h) == h % 2 = 0

\* C11: the k-th track point returned comes from the k-th well-formed line; its
\* frame is never negative, and for a whole file frame number f it is f - 1 when
\* f >= 1 and 0 otherwise (frame 1 and frame 0 both give 0).
C11_FrameNormalized ==
    \A i \in TrackCalls :
        /\ ~parse_log[i].outcome.raised
        /\ Len(CallTracks(i)) <= Len(GoodLines(i))
        /\ \A k \in 1..Len(CallTracks(i)) :
             LET f == GoodLines(i)[k].f[1].h
                 frame == CallTracks(i)[k].frame
             IN  /\ frame >= 0
                 /\ IsWhole(f) => frame = (IF f \div 2 >= 1 THEN f \div 2 - 1 ELSE 0)

\* A file whose lines carry frame 0 and frame 1 was parsed into two track points.
C11_Witness ==
    \E i \in TrackCalls :
        /\ Len(CallTracks(i)) = 2
        /\ GoodLines(i)[1].f[1] = Num(0)
        /\ GoodLines(i)[2].f[1] = Num(2)

\* C12 (as stated): for a line with w, h >= 0 the parsed box has
\* x2 - x1 = round(w) and y2 - y1 = round(h), with x1 <= x2 and y1 <= y2.
C12_ExactExtent ==
    \A i \in TrackCalls :
        \A k \in 1..Len(CallTracks(i)) :
            LET l == GoodLines(i)[k].f
                b == CallTracks(i)[k].bbox
            IN  (l[5].h >= 0 /\ l[6].h >= 0) =>
                    /\ b.x2 - b.x1 = RoundHalves(l[5].h)
                    /\ b.y2 - b.y1 = RoundHalves(l[6].h)
                    /\ b.x1 <= b.x2
                    /\ b.y1 <= b.y2

\* C12 (amended): for a line with w, h >= 0 the parsed box has x1 <= x2 and
\* y1 <= y2, its extent x2 - x1 differs from round(w) by at most 1 (y2 - y1 from
\* round(h) likewise), and the two are equal when x and w (y and h) are whole.
C12_ExtentWithinOne ==
    \A i \in TrackCalls :
        \A k \in 1..Len(CallTracks(i)) :
            LET l == GoodLines(i)[k].f
                b == CallTracks(i)[k].bbox
            IN  (l[5].h >= 0 /\ l[6].h >= 0) =>
                    /\ b.x1 <= b.x2
                    /\ b.y1 <= b.y2
                    /\ Abs((b.x2 - b.x1) - RoundHalves(l[5].h)) <= 1
                    /\ Abs((b.y2 - b.y1) - RoundHalves(l[6].h)) <= 1
                    /\ (IsWhole(l[3].h) /\ IsWhole(l[5].h)) => b.x2 - b.x1 = RoundHalves(l[5].h)
                    /\ (IsWhole(l[4].h) /\ IsWhole(l[6].h)) => b.y2 - b.y1 = RoundHalves(l[6].h)

\* A line with x = 0.5 and w = 0.5 was parsed: x1 = 0, x2 = 1, round(w) = 0.
C12_Witness ==
    \E i \in TrackCalls :
        \E k \in 1..Len(CallTracks(i)) :
            /\ GoodLines(i)[k].f[3] = Num(1)
            /\ GoodLines(i)[k].f[5] = Num(1)
            /\ CallTracks(i)[k].bbox.x2 - CallTracks(i)[k].bbox.x1 = 1

\* C13: a call returns exactly one track point per well-formed line of the
\* file, in file order, whatever other lines stand between them.
C13_OneTrackPerLine ==
    \A i \in TrackCalls :
        /\ Len(CallTracks(i)) = Len(GoodLines(i))
        /\ \A k \in 1..Len(CallTracks(i)) :
             CallTracks(i)[k].id = TruncHalves(GoodLines(i)[k].f[2].h)

-----------------------------------------------------------------------------
(* Properties of the shoe-label views (specification SpecShoes) *)

SmallBbox == JStr("small_bbox")

\* The labels load_shoe_labels returned in the first call.
Labels == parse_log[1].outcome.value.labels

\* The calls of the given view.
ViewCalls(name) == { i \in 2..Len(parse_log) : parse_log[i].fn = name }

\* The entries of the document behind the first call, when there is one.
DocEntries ==
    IF fs[parse_log[1].path].t = "file" THEN fs[parse_log[1].path].json.vals ELSE << >>

\* C14: no label returned by load_shoe_labels has the class "small_bbox", no
\* entry of the static per-identity view has it, and it is no key of the
\* counts or of the average confidences of a summary.
C14_NoSmallBbox ==
    /\ (Len(parse_log) >= 1 /\ ~parse_log[1].outcome.raised) =>
           \A k \in 1..Len(Labels) : Labels[k].class # SmallBbox
    /\ \A i \in ViewCalls("get_tracker_shoes_static") :
           \A id \in DOMAIN parse_log[i].outcome.value :
               parse_log[i].outcome.value[id].class # SmallBbox
    /\ \A i \in ViewCalls("summarize_frame_shoes") \cup ViewCalls("summarize_all_shoes") :
           /\ "small_bbox" \notin DOMAIN parse_log[i].outcome.value.counts
           /\ "small_bbox" \notin DOMAIN parse_log[i].outcome.value.avg_conf

\* A document with a "small_bbox" entry and another entry was loaded and
\* summarised.
C14_Witness ==
    /\ ViewCalls("summarize_all_shoes") # {}
    /\ \E k \in 1..Len(DocEntries) :
         DocEntries[k].t = "obj" /\ ObjGet(DocEntries[k], "class", JNull) = SmallBbox
    /\ Len(Labels) >= 1

\* A record's confidence, an absent one counting as 0.
ConfidenceOrZero(rec) == IF rec.confidence = JNull THEN 0 ELSE rec.confidence.n

\* The records of an identity.
RecordsOf(id) == { k \in 1..Len(Labels) : Labels[k].tracker_id = id }

\* C15: the static view has exactly one entry per identity with a record, and
\* the entry carries the class, confidence and frame of the earliest of the
\* identity's records of maximal confidence (an absent confidence counting 0).
C15_StaticIsBest ==
    \A i \in ViewCalls("get_tracker_shoes_static") :
        LET r == parse_log[i].outcome.value IN
        /\ DOMAIN r = { Labels[k].tracker_id : k \in 1..Len(Labels) }
        /\ \A id \in DOMAIN r :
             \E k \in RecordsOf(id) :
                 /\ r[id].class = Labels[k].class
                 /\ r[id].confidence = ConfidenceOrZero(Labels[k])
                 /\ r[id].frame = Labels[k].frame
                 /\ \A j \in RecordsOf(id) :
                      /\ ConfidenceOrZero(Labels[j]) <= ConfidenceOrZero(Labels[k])
                      /\ ConfidenceOrZero(Labels[j]) = ConfidenceOrZero(Labels[k]) => k <= j

\* The static view was taken of two records of one identity, the later one
\* with the higher confidence.
C15_Witness ==
    /\ ViewCalls("get_tracker_shoes_static") # {}
    /\ Len(Labels) = 2
    /\ Labels[1].tracker_id = Labels[2].tracker_id
    /\ ConfidenceOrZero(Labels[1]) < ConfidenceOrZero(Labels[2])

\* The records a summary call considers: all of them, or those of its frame.
Considered(i) ==
    IF parse_log[i].fn = "summarize_all_shoes" THEN Labels
    ELSE SelectSeq(Labels, LAMBDA rec : rec.frame = parse_log[i].frame_idx)

\* The class a record is tallied under: a record without class is "Unknown".
TallyClass(rec) == IF rec.class = JNull THEN "Unknown" ELSE rec.class.s

\* The considered records of class c, and those of them with a confidence.
OfClass(items, c) == { k \in 1..Len(items) : TallyClass(items[k]) = c }
WithConfidence(items, c) == { k \in OfClass(items, c) : items[k].confidence # JNull }

RECURSIVE SumConfidence(_, _)
SumConfidence(items, S) ==
    IF S = {} THEN 0
    ELSE LET k == CHOOSE x \in S : TRUE
         IN  items[k].confidence.n + SumConfidence(items, S \ {k})

RECURSIVE SumCounts(_, _)
SumCounts(counts, S) ==
    IF S = {} THEN 0
    ELSE LET c == CHOOSE x \in S : TRUE
         IN  counts[c] + SumCounts(counts, S \ {c})

\* C19: counts[c] is the number of considered records of class c and the counts
\* sum to the number of considered records; the average mapping has the key c
\* exactly when a considered record of class c has a confidence, and its value
\* is the mean of those confidences; every key of it is a key of counts.
C19_Summaries ==
    \A i \in ViewCalls("summarize_frame_shoes") \cup ViewCalls("summarize_all_shoes") :
        LET items == Considered(i)
            counts == parse_log[i].outcome.value.counts
            avg == parse_log[i].outcome.value.avg_conf
        IN  /\ DOMAIN counts = { TallyClass(items[k]) : k \in 1..Len(items) }
            /\ \A c \in DOMAIN counts : counts[c] = Cardinality(OfClass(items, c))
            /\ SumCounts(counts, DOMAIN counts) = Len(items)
            /\ DOMAIN avg = { c \in DOMAIN counts : WithConfidence(items, c) # {} }
            /\ \A c \in DOMAIN avg :
                 /\ avg[c].den > 0
                 /\ avg[c].num * Cardinality(WithConfidence(items, c))
                      = SumConfidence(items, WithConfidence(items, c)) * avg[c].den
            /\ DOMAIN avg \subseteq DOMAIN counts

\* A summary was taken of two records of one class, only one of them with a
\* confidence.
C19_Witness ==
    \E i \in ViewCalls("summarize_frame_shoes") \cup ViewCalls("summarize_all_shoes") :
        \E c \in DOMAIN parse_log[i].outcome.value.counts :
            /\ parse_log[i].outcome.value.counts[c] = 2
            /\ Cardinality(WithConfidence(Considered(i), c)) = 1

-----------------------------------------------------------------------------
(* Properties of the detection queries (specification SpecQuery) *)

Results == ObjGet(det_data, "results", JArr(<< >>)).items

\* The entry is an object whose frame field is the number idx.
FrameIs(item, idx) == item.t = "obj" /\ HasKey(item, "frame") /\ ObjGet(item, "frame", JNull) = JNum(idx)

\* The detections array of an entry, empty when it has none.
DetsOf(item) == IF HasKey(item, "detections") THEN ObjGet(item, "detections", JNull).items ELSE << >>

\* The positions of the entries whose frame field is idx.
Matching(idx) == { i \in 1..Len(Results) : FrameIs(Results[i], idx) }

\* The smallest element of a non-empty set of numbers.
Least(S) == CHOOSE i \in S : \A j \in S : i <= j

\* The detections of the first entry whose frame field is idx, or none.
FirstMatch(idx) ==
    IF Matching(idx) = {} THEN << >> ELSE DetsOf(Results[Least(Matching(idx))])

\* C8 as stated: without a confidence floor the result is the detections of
\* the first entry whose frame field equals idx, whatever the order of the
\* entries and whether or not frame numbers repeat.
C8_FirstMatchAlways ==
    (query # None /\ query.min = None) => query.result = FirstMatch(query.idx)

\* No two entries carry the same frame number.
NoDuplicateFrames ==
    \A i, j \in 1..Len(Results) :
        \A f \in FrameChoices : (FrameIs(Results[i], f) /\ FrameIs(Results[j], f)) => i = j

\* C8 amended: without a confidence floor the result is the detections of the
\* entry at position idx when its frame field is idx, and of the first entry
\* whose frame field is idx otherwise (none: the empty list); when no frame
\* number repeats this is the first matching entry.
C8_DirectThenFirstMatch ==
    (query # None /\ query.min = None) =>
        /\ query.result =
             IF (query.idx + 1) \in Matching(query.idx)
             THEN DetsOf(Results[query.idx + 1])
             ELSE FirstMatch(query.idx)
        /\ NoDuplicateFrames => query.result = FirstMatch(query.idx)

\* The entries are out of order: frame 1 is found by the scan, at position 1.
C8_Witness ==
    /\ query # None
    /\ query.min = None
    /\ query.idx = 1
    /\ Len(Results) = 2
    /\ FrameIs(Results[1], 1)
    /\ FrameIs(Results[2], 0)
    /\ Len(query.result) = 3

\* The confidence of a detection in hundredths, 0 when it has none.
ConfidenceOf(det) == IF HasKey(det, "confidence") THEN ObjGet(det, "confidence", JNull).n ELSE 0

\* s is the subsequence of d at the positions in keep, in order.
IsSubseqAt(s, d, keep) ==
    /\ Len(s) = Cardinality(keep)
    /\ \A i \in keep : s[Cardinality({ j \in keep : j <= i })] = d[i]

\* C9: with a floor m the result is exactly the detections of the looked-up
\* frame whose confidence is >= m, in stored order; a frame-0 detection of
\* confidence 0.9 is returned for m = 0.5 and not for m = 0.95.
C9_ConfidenceFloor ==
    (query # None /\ query.min # None) =>
        LET d == LookupDetections(det_data, query.idx)
            keep == { i \in 1..Len(d) : ConfidenceOf(d[i]) >= query.min.n }
        IN  /\ IsSubseqAt(query.result, d, keep)
            /\ (query.idx = 0 /\ d = << Detection("person", JNum(90)) >>) =>
                 /\ query.min = Floor(50) => query.result = d
                 /\ query.min = Floor(95) => query.result = << >>

\* Of three detections (0.5, 0.9, none) the floor 0.5 keeps the first two.
C9_Witness ==
    /\ query # None
    /\ query.min = Floor(50)
    /\ Len(LookupDetections(det_data, query.idx)) = 3
    /\ Len(query.result) = 2

\* C10: for one detection set and one frame index, a higher floor never
\* returns more detections than a lower one.
C10_FloorMonotone ==
    (query # None /\ prev_query # None /\ query.min # None /\ prev_query.min # None) =>
        /\ prev_query.idx = query.idx
        /\ prev_query.min.n <= query.min.n => Len(query.result) <= Len(prev_query.result)
        /\ query.min.n <= prev_query.min.n => Len(prev_query.result) <= Len(query.result)

\* The floor was raised from 0.5 to 0.95 and the result shrank from 2 to 0.
C10_Witness ==
    /\ query # None
    /\ prev_query # None
    /\ prev_query.min = Floor(50)
    /\ query.min = Floor(95)
    /\ Len(prev_query.result) = 2
    /\ Len(query.result) = 0

-----------------------------------------------------------------------------
(* Properties of compute_avg_detections (specification SpecAvg) *)

\* The frame entries: the objects of results whose detections are a list, an
\* entry without a "detections" key having none.
FrameEntries ==
    { k \in 1..Len(Results) :
        /\ Results[k].t = "obj"
        /\ HasKey(Results[k], "detections") => ObjGet(Results[k], "detections", JNull).t = "arr" }

\* The number of detections of entry k that meet the floor m.
Meeting(k, m) ==
    LET dets == IF HasKey(Results[k], "detections")
                THEN ObjGet(Results[k], "detections", JNull).items ELSE << >>
    IN  Cardinality({ j \in 1..Len(dets) : m = None \/ ConfidenceOf(dets[j]) >= m.n })

RECURSIVE SumMeeting(_, _)
SumMeeting(S, m) ==
    IF S = {} THEN 0
    ELSE LET k == CHOOSE x \in S : TRUE
         IN  Meeting(k, m) + SumMeeting(S \ {k}, m)

\* C18: the average is the number of detections meeting the floor, summed over
\* the frame entries, divided by the number of frame entries, and 0.0 when
\* there is no frame entry; frames with 2, 0 and 4 detections give 2.0.
C18_AverageCount ==
    query # None =>
        /\ query.result.den > 0
        /\ FrameEntries = {} => query.result = Zero
        /\ FrameEntries # {} =>
               query.result.num * Cardinality(FrameEntries)
                   = SumMeeting(FrameEntries, query.min) * query.result.den

\* The average of frames with 2, 0 and 4 detections was taken without a floor
\* and is 2.0.
C18_Witness ==
    /\ query # None
    /\ query.min = None
    /\ Len(Results) = 3
    /\ \A k \in 1..3 : k \in FrameEntries
    /\ Meeting(1, None) = 2
    /\ Meeting(2, None) = 0
    /\ Meeting(3, None) = 4
    /\ query.result.num = 2 * query.result.den

-----------------------------------------------------------------------------
(* Properties of get_frame_tracks (specification SpecViews) *)

\* The parsed track set as the heap holds it now.
ParsedTracks ==
    LET items == heap[TracksAddr].items
    IN  [k \in 1..Len(items) |->
            [frame |-> heap[items[k]].frame,
             id |-> heap[items[k]].id,
             bbox |-> [x1 |-> heap[heap[items[k]].bbox].x1, y1 |-> heap[heap[items[k]].bbox].y1,
                       x2 |-> heap[heap[items[k]].bbox].x2, y2 |-> heap[heap[items[k]].bbox].y2],
             conf |-> heap[items[k]].conf]]

GetCalls == { i \in 1..Len(trace) : trace[i].fn = "get_frame_tracks" }

\* C16: whatever the caller writes into the records get_frame_tracks returned,
\* or into their bbox, the parsed track set keeps its values, and a later call
\* for the same frame returns what the earlier call returned.
C16_ViewsAreCopies ==
    /\ ParsedTracks \in ViewTrackSets
    /\ \A i, j \in GetCalls :
         (i < j /\ trace[i].frame_idx = trace[j].frame_idx) => trace[j].value = trace[i].value

\* A frame was looked up, the bbox of a returned record was written to, and the
\* frame was looked up again.
C16_Witness ==
    /\ Len(trace) >= 3
    /\ trace[1].fn = "get_frame_tracks"
    /\ trace[1].value # << >>
    /\ trace[2].fn = "write"
    /\ heap[trace[2].target].kind = "bbox"
    /\ heap[trace[2].target].x1 = Scribble
    /\ trace[3].fn = "get_frame_tracks"
    /\ trace[3].frame_idx = trace[1].frame_idx

-----------------------------------------------------------------------------
(* Properties of the drawing functions (specification SpecRender) *)

\* C17: after every call of a drawing function or of the ROI tinting step the
\* raster the caller gave has the pixel values it had before the call.
C17_InputUntouched ==
    \A i \in 1..Len(trace) : trace[i].after = trace[i].before

\* What call i drew: the pixels of the returned raster beyond those of the
\* raster given.
Drawn(i) == SubSeq(trace[i].out, Len(trace[i].before) + 1, Len(trace[i].out))

TrackDraws == { i \in 1..Len(trace) : trace[i].fn = "draw_tracks_on_image" }

\* The trail of an identity as handed to the call: no point when there is no
\* history or none for the identity.
TrailOf(id) ==
    IF heap[3].arg.given /\ id \in DOMAIN heap[3].arg.map THEN heap[3].arg.map[id] ELSE << >>

\* C20: draw_tracks_on_image draws no polyline for an identity whose trail has
\* fewer than 2 points, whatever the trails of the other identities are.
C20_NoShortTrail ==
    \A i \in TrackDraws :
        \A k \in 1..Len(Drawn(i)) :
            Drawn(i)[k].op = "polylines" => Len(TrailOf(Drawn(i)[k].id)) >= 2

\* Two identities were drawn, identity 1 with a one-point trail and identity 2
\* with a longer one: a single polyline was drawn, that of identity 2.
C20_Witness ==
    \E i \in TrackDraws :
        /\ Len(heap[2].items) = 2
        /\ Len(TrailOf(1)) = 1
        /\ Len(TrailOf(2)) >= 2
        /\ \E k \in 1..Len(Drawn(i)) : Drawn(i)[k].op = "polylines" /\ Drawn(i)[k].id = 2
        /\ \A k \in 1..Len(Drawn(i)) : Drawn(i)[k].op = "polylines" => Drawn(i)[k].id = 2

-----------------------------------------------------------------------------
(* Properties of id_color (specification SpecColor) *)

\* The id a lookup was made for: 0 for a record without an id.
LookupId(c) == IF "id" \in DOMAIN c.tr THEN c.tr.id ELSE 0

\* Two lookups for the same id give the same colour, on whichever path and
\* whatever lookups were made in between.
SameIdSameColor ==
    \A i \in 1..Len(trace) : \A j \in 1..Len(trace) :
        LookupId(trace[i]) = LookupId(trace[j]) => trace[i].ret = trace[j].ret

\* C21 (as amended): two id_color lookups with the same track id return the same
\* colour whatever lookups happen in between, on the export and the interactive
\* path alike, and the colour is the palette entry at index |track id| mod
\* palette size.
C21_ColorByAbsId ==
    /\ SameIdSameColor
    /\ \A i \in 1..Len(trace) :
         LET n == LookupId(trace[i])
             m == IF n < 0 THEN 0 - n ELSE n
         IN  trace[i].ret = pleasant_palette[(m % 10) + 1]

\* C21 (as stated): ... the colour being the palette entry at index
\* (track id mod palette size).
C21_ColorByIdMod ==
    /\ SameIdSameColor
    /\ \A i \in 1..Len(trace) :
         trace[i].ret = pleasant_palette[(LookupId(trace[i]) % 10) + 1]

\* The same id looked up on both paths with another id in between, the id
\* being larger than the palette.
C21_Witness ==
    /\ Len(trace) = 3
    /\ trace[1].tr = [id |-> 13] /\ trace[1].path = "export"
    /\ trace[2].tr = [id |-> 7]
    /\ trace[3].tr = [id |-> 13] /\ trace[3].path = "interactive"
    /\ trace[1].ret = <<15, 196, 241>>
    /\ trace[3].ret = <<15, 196, 241>>

-----------------------------------------------------------------------------
(* Properties of get_video_info (specification SpecInfo) *)

InfoFields ==
    {"fps", "frame_count", "duration", "width", "height", "bitrate", "codec", "container"}

FieldDefault(k) == IF k \in {"codec", "container"} THEN "N/A" ELSE 0

\* Neither provider can tell anything about the file.
NothingDetermined(env) ==
    \/ ~env.exists
    \/ env.cv2.kind # "opened" /\ env.ffprobe.kind # "data"

\* A returned value holds the eight fields.
CompleteRecord(o) == ~o.raised /\ DOMAIN o.value = InfoFields

C23_NoOverwrite ==
    \A i \in 1..Len(trace) :
        trace[i].fn = "get_video_info" =>
            \A a \in 1..Len(trace[i].stages) : \A b \in a..Len(trace[i].stages) :
                \A k \in InfoFields :
                    trace[i].stages[a][k] # FieldDefault(k) =>
                        trace[i].stages[b][k] = trace[i].stages[a][k]

-----------------------------------------------------------------------------
(* Properties of the shoe-label patch (specification SpecLabel) *)

\* C24: for every box position and every text width the shoe-label patch lies
\* horizontally inside the frame: left edge >= 0 and right edge <= frame width.
C24_PatchInsideFrame ==
    \A i \in 1..Len(trace) :
        trace[i].fn = "shoe_label" =>
            /\ trace[i].patch.shoe_bg_x1 >= 0
            /\ trace[i].patch.shoe_bg_x2 <= trace[i].frame_width

-----------------------------------------------------------------------------
(* Properties of the dashboard page (specification SpecUI) *)

\* The page shows a frame with the trails of a tracker.
ShowsTrails == view.mode = "frame" /\ view.tracker # "none"

\* The centroids (horizontal middle, bottom edge) of the points of identity id
\* in frame f, in file order.
FrameCentroids(data, id, f) ==
    LET pts == SelectSeq(data, LAMBDA p : p.frame = f /\ p.id = id)
    IN  [i \in 1..Len(pts) |->
            << IntHalf(pts[i].bbox.x1 + pts[i].bbox.x2), pts[i].bbox.y2 >>]

RECURSIVE CentroidsBetween(_, _, _, _)
\* The centroids of identity id in the frames lo..hi, in increasing frame order.
CentroidsBetween(data, id, lo, hi) ==
    IF hi < lo THEN << >>
    ELSE CentroidsBetween(data, id, lo, hi - 1) \o FrameCentroids(data, id, hi)

\* The identities with a point in the frames lo..hi.
IdsBetween(data, lo, hi) ==
    { data[i].id : i \in { j \in 1..Len(data) : data[j].frame >= lo /\ data[j].frame <= hi } }

\* First frame of the look-back window of frame f.
WindowStart(f) == IF f - 24 > 0 THEN f - 24 ELSE 0

\* C25 (as amended): in frame-by-frame viewing the trail history used for
\* frame f depends on f and the loaded track set only: for each identity it is
\* the last 25 of the centroids of its track points whose frame lies in
\* [max(0, f - 24), f], in increasing frame order, whatever was displayed
\* before.
C25_WindowHistoryCapped ==
    ShowsTrails =>
        LET data == loaded[view.tracker]
            f == view.frame
        IN  /\ DOMAIN view.history = IdsBetween(data, WindowStart(f), f)
            /\ \A id \in DOMAIN view.history :
                 view.history[id] = LastN(CentroidsBetween(data, id, WindowStart(f), f), 25)

\* C25 (as stated): the history consists of the centroids of the track points
\* whose frame lies in [max(0, f - 24), f], in increasing frame order.
C25_WindowHistory ==
    ShowsTrails =>
        LET data == loaded[view.tracker]
            f == view.frame
        IN  /\ DOMAIN view.history = IdsBetween(data, WindowStart(f), f)
            /\ \A id \in DOMAIN view.history :
                 view.history[id] = CentroidsBetween(data, id, WindowStart(f), f)

\* Frame 25 is reached with the -1 button after a later frame was shown, with
\* the one-point-per-frame tracks loaded: the trail of identity 1 starts at
\* frame 1.
C25_Witness ==
    /\ ShowsTrails
    /\ view.frame = 25
    /\ view.event = "-1"
    /\ loaded[view.tracker] = PatternTracks("walk", MaxFrames)
    /\ Len(view.history[1]) = 25
    /\ view.history[1][1] = <<2, 11>>

\* C29: after any sequence of checkbox clicks at most one of OC SORT,
\* BoT SORT ReID and video mode is enabled; a tracker turned on turns the other
\* tracker and video mode off, and a change of video mode turns every tracker
\* off.
C29_OneMode ==
    session # None =>
        /\ Cardinality({ k \in {"track_id", "bot_sort_reid", "video_mode"} : session[k] }) <= 1
        /\ \A name \in TrackerKeys :
             (view.event = name /\ session[name]) =>
                 /\ \A other \in TrackerKeys \ {name} : ~session[other]
                 /\ ~session.video_mode
        /\ view.event = "video_mode" => (~session.track_id /\ ~session.bot_sort_reid)

\* A tracker is switched on while video mode was on.
C29_Witness ==
    /\ session # None
    /\ view.event = "bot_sort_reid"
    /\ session.bot_sort_reid
    /\ ~session.track_id
    /\ ~session.video_mode
    /\ session.selected_video = "clip"

\* C30: in every reachable state of the page, 0 <= current_frame <=
\* max(0, frames - 1) for the frame count of the selected video.
C30_FrameInRange ==
    session # None =>
        /\ session.current_frame >= 0
        /\ session.current_frame <= Max(0, PageFrames(session) - 1)

-----------------------------------------------------------------------------
(* Properties of read_frame (specification SpecRead) *)

\* The calls of read_frame in the log.
ReadCalls == { i \in 1..Len(trace) : trace[i].fn = "read_frame" }

\* clamp(frame_idx, 0, total_frames - 1)
ClampIndex(i, total) == Max(0, Min(i, total - 1))

\* C28: whenever read_frame returns a frame it is the frame at index
\* clamp(frame_idx, 0, total_frames - 1), whichever of the direct seek, the
\* step-back retry and the sequential read produced it, and the decoder is
\* released on every return path. The clamp is read for videos that report a
\* frame count (total_frames > 0), where its range is not empty.
C28_ClampedFrameReleased ==
    \A i \in ReadCalls :
        /\ (trace[i].out.ret # NoFrame /\ trace[i].video.total_frames > 0) =>
               trace[i].out.ret = FrameAt(ClampIndex(trace[i].frame_idx, trace[i].video.total_frames))
        /\ trace[i].out.cap # "open"

\* No return path leaves the decoder open.
ReadFrameReleases == \A i \in ReadCalls : trace[i].out.cap # "open"

\* With a known frame count, the frame returned is the clamped one unless the
\* step-back retry produced it, and then it is the one two frames earlier (or
\* frame 0).
ReadFrameClampedOrSteppedBack ==
    \A i \in ReadCalls :
        LET c == trace[i]
            want == ClampIndex(c.frame_idx, c.video.total_frames)
        IN  (c.out.ret # NoFrame /\ c.video.total_frames > 0) =>
                IF c.out.by = "step-back"
                THEN c.out.ret = FrameAt(Max(0, want - 2))
                ELSE c.out.ret = FrameAt(want)

\* The last reported frame cannot be decoded and the retry returned another.
ReadFrameSteppedBack ==
    \E i \in ReadCalls :
        /\ trace[i].video.total_frames = 4
        /\ trace[i].video.decodable = 3
        /\ trace[i].frame_idx = 3
        /\ trace[i].out.ret = FrameAt(1)
        /\ trace[i].out.by = "step-back"

-----------------------------------------------------------------------------
(* The export run as a whole (specifications SpecFair and Spec) *)

\* The trail queue of identity id after the updates of frames 0..f of one run
\* that started with no history.
ExportTrail(data, id, f) == LastN(CentroidsBetween(data, id, 0, f), HistoryLen)

\* Frame frame_idx is between its trail update and out.write.
Compositing == fn = "tracks" /\ pc \in {"draw", "summary", "write"}

\* What holds of the frames written and of the history used for each frame.
ExportFramesInOrder ==
    fn = "tracks" =>
        /\ (pc = "done" /\ video = "readable" /\ raised = {}) =>
               /\ result = "True"
               /\ written = [i \in 1..decoded |-> i - 1]
        /\ Compositing =>
               /\ frame_idx = decoded - 1
               /\ written = [i \in 1..frame_idx |-> i - 1]
               /\ DOMAIN track_history = IdsBetween(tracks_data, 0, frame_idx)
               /\ \A id \in DOMAIN track_history :
                    track_history[id] = ExportTrail(tracks_data, id, frame_idx)
        /\ pc = "progress" => written = [i \in 1..(frame_idx + 1) |-> i - 1]

\* C26: for a finite input video with N decodable frames and no exception the
\* export terminates, returns True and has written exactly the N frames in
\* decode order; frame i is composited with the tracks of frame i and with the
\* trail history built from the centroids of frames 0..i of this run only,
\* frame i's included.
C26_ExportCompletes == []ExportFramesInOrder /\ <>(pc = "done")

\* An export of MaxFrames frames ended without an exception, the last frames
\* drawn with full queues.
C26_Witness ==
    /\ fn = "tracks"
    /\ pc = "done"
    /\ result = "True"
    /\ raised = {}
    /\ decoded = MaxFrames
    /\ Len(written) = MaxFrames
    /\ tracks_data = PatternTracks("pair", MaxFrames)
    /\ Len(track_history[1]) = HistoryLen

\* s is the end of t.
IsSuffix(s, t) ==
    /\ Len(s) <= Len(t)
    /\ SubSeq(t, Len(t) - Len(s) + 1, Len(t)) = s

\* The trail a history holds for an identity, empty when it has none.
QueueOf(h, id) == IF id \in DOMAIN h THEN h[id] ELSE << >>

\* Identity id has exactly one track point in each of the frames lo..hi.
OnePointPerFrame(data, id, lo, hi) ==
    \A f \in lo..hi : Len(FrameCentroids(data, id, f)) = 1

\* C27: for every track set, frame f and identity, the trail the page builds
\* for f is a suffix of the trail the export holds for the identity after
\* frames 0..f, and the two are equal when the identity has one track point in
\* each of the frames max(0, f - 24)..f.
C27_ViewTrailSuffix ==
    Compositing =>
        LET shown == ViewHistory(tracks_data, frame_idx)
        IN  \A id \in DOMAIN shown \cup DOMAIN track_history :
              /\ IsSuffix(QueueOf(shown, id), QueueOf(track_history, id))
              /\ OnePointPerFrame(tracks_data, id, WindowStart(frame_idx), frame_idx) =>
                     QueueOf(shown, id) = QueueOf(track_history, id)

\* At frame 26 identity 7 has a point in every frame of the window and the two
\* trails are equal, while identity 2 has points in the even frames only and
\* the page's trail is shorter than the export's.
C27_Witness ==
    /\ Compositing
    /\ frame_idx = 26
    /\ tracks_data = PatternTracks("negative", MaxFrames)
    /\ ViewHistory(tracks_data, frame_idx)[7] = track_history[7]
    /\ Len(track_history[7]) = 25
    /\ Len(ViewHistory(tracks_data, frame_idx)[2]) = 13
    /\ Len(track_history[2]) = 14

====
